---- MODULE Spec2Model ----
(***************************************************************************)
(* A model of the JOVIAL J73 language server: the line-oriented statement  *)
(* recogniser of jovial_semantic_parser.py, the semantic model it builds,  *)
(* the queries over that model, and the document store of                  *)
(* jovial_lsp_server.py.                                                   *)
(*                                                                         *)
(* Source text is modelled character by character: a line is a TLA+        *)
(* string, and the regular expressions of the source are translated into   *)
(* scanning operators over strings.  Optional values (Python None) are     *)
(* the empty tuple <<>>; a present value v is <<v>>.  Python dicts are     *)
(* functions whose DOMAIN is the key set.                                  *)
(***************************************************************************)
EXTENDS Integers, Sequences, FiniteSets, TLC

(***************************************************************************)
(* Characters and strings                                                  *)
(***************************************************************************)
None == <<>>

Some(v) == <<v>>

Ch(s, k) == SubSeq(s, k, k)

LowerChars == "abcdefghijklmnopqrstuvwxyz"

UpperChars == "ABCDEFGHIJKLMNOPQRSTUVWXYZ"

DigitChars == "0123456789"

CharsOf(s) == { Ch(s, k) : k \in 1..Len(s) }

LowerSet == CharsOf(LowerChars)

UpperSet == CharsOf(UpperChars)

DigitSet == CharsOf(DigitChars)

\* \s of the regular expressions and the characters str.strip() removes
SpaceSet == {" ", "\t"}

\* [A-Z] under re.IGNORECASE
IsAlpha(c) == c \in UpperSet \/ c \in LowerSet

\* \d and str.isdigit() on one character
IsDigit(c) == c \in DigitSet

\* [A-Z0-9'] under re.IGNORECASE
IsIdentChar(c) == IsAlpha(c) \/ IsDigit(c) \/ c = "'"

IsSpace(c) == c \in SpaceSet

IndexIn(s, c) == CHOOSE k \in 1..Len(s) : Ch(s, k) = c

UpperChar(c) == IF c \in LowerSet THEN Ch(UpperChars, IndexIn(LowerChars, c)) ELSE c

RECURSIVE Upper(_)
\* str.upper()
Upper(s) == IF s = "" THEN "" ELSE UpperChar(Ch(s, 1)) \o Upper(Tail(s))

\* the part of s from position k (1-based) to the end
From(s, k) == SubSeq(s, k, Len(s))

\* str.startswith
StartsWith(s, p) == Len(s) >= Len(p) /\ SubSeq(s, 1, Len(p)) = p

\* str.endswith
EndsWith(s, p) == Len(s) >= Len(p) /\ SubSeq(s, Len(s) - Len(p) + 1, Len(s)) = p

\* s.startswith(p, k - 1): p occurs in s at position k
MatchAt(s, k, p) == k + Len(p) - 1 <= Len(s) /\ SubSeq(s, k, k + Len(p) - 1) = p

RECURSIVE LStripSet(_, _)
\* str.lstrip(chars)
LStripSet(s, cs) == IF s # "" /\ Ch(s, 1) \in cs THEN LStripSet(Tail(s), cs) ELSE s

RECURSIVE RStripSet(_, _)
\* str.rstrip(chars)
RStripSet(s, cs) ==
    IF s # "" /\ Ch(s, Len(s)) \in cs THEN RStripSet(SubSeq(s, 1, Len(s) - 1), cs) ELSE s

\* str.strip()
Strip(s) == RStripSet(LStripSet(s, SpaceSet), SpaceSet)

RECURSIVE SkipSpaces(_, _)
\* \s* at position k: the position after the run of whitespace
SkipSpaces(s, k) == IF k <= Len(s) /\ IsSpace(Ch(s, k)) THEN SkipSpaces(s, k + 1) ELSE k

RECURSIVE SkipIdent(_, _)
\* [A-Z0-9']* at position k: the position after the run of identifier characters
SkipIdent(s, k) == IF k <= Len(s) /\ IsIdentChar(Ch(s, k)) THEN SkipIdent(s, k + 1) ELSE k

RECURSIVE SkipDigits(_, _)
\* \d* at position k
SkipDigits(s, k) == IF k <= Len(s) /\ IsDigit(Ch(s, k)) THEN SkipDigits(s, k + 1) ELSE k

RECURSIVE FindFrom(_, _, _)
\* the least position >= k at which p occurs in s, 0 when there is none
FindFrom(s, p, k) ==
    IF k + Len(p) - 1 > Len(s) THEN 0
    ELSE IF MatchAt(s, k, p) THEN k ELSE FindFrom(s, p, k + 1)

\* str.find(p): 0-based index, -1 when absent
Find(s, p) == FindFrom(s, p, 1) - 1

\* p in s
Contains(s, p) == FindFrom(s, p, 1) # 0

RECURSIVE Split(_, _)
\* str.split(sep) for a one-character separator
Split(s, sep) ==
    LET k == FindFrom(s, sep, 1)
    IN  IF k = 0 THEN <<s>>
        ELSE <<SubSeq(s, 1, k - 1)>> \o Split(From(s, k + 1), sep)

\* str.isdigit(): non-empty and all digits
IsDigits(s) == s # "" /\ \A k \in 1..Len(s) : IsDigit(Ch(s, k))

DigitVal(c) == IndexIn(DigitChars, c) - 1

RECURSIVE DecimalValue(_)
DecimalValue(s) ==
    IF s = "" THEN 0
    ELSE 10 * DecimalValue(SubSeq(s, 1, Len(s) - 1)) + DigitVal(Ch(s, Len(s)))

\* int(s) accepts an optional single sign followed by digits
IntAccepts(s) ==
    \/ IsDigits(s)
    \/ Len(s) >= 2 /\ Ch(s, 1) \in {"-", "+"} /\ IsDigits(Tail(s))

\* int(s) for a string IntAccepts admits
IntValue(s) ==
    IF Ch(s, 1) = "-" THEN 0 - DecimalValue(Tail(s))
    ELSE IF Ch(s, 1) = "+" THEN DecimalValue(Tail(s))
    ELSE DecimalValue(s)

\* dict[key] = value
Put(f, k, v) == [x \in DOMAIN f \cup {k} |-> IF x = k THEN v ELSE f[x]]

\* del dict[key]
Drop(f, k) == [x \in DOMAIN f \ {k} |-> f[x]]

EmptyDict == [x \in {} |-> None]

(***************************************************************************)
(* Entities of the semantic model                                          *)
(***************************************************************************)
\* JovialType values
TypeAbbrevs == <<"S", "U", "F", "A", "B", "C", "P", "STATUS">>

\* the alternatives of (STATIC\s+|CONSTANT\s+|PARALLEL\s+), in order
AttrWords == <<"STATIC", "CONSTANT", "PARALLEL">>

\* type_map.get(type_abbrev, JovialType.UNKNOWN), a type being named by its value
type_map(abbrev) == IF \E k \in 1..Len(TypeAbbrevs) : TypeAbbrevs[k] = abbrev THEN abbrev ELSE "UNKNOWN"

\* ItemDefinition(...); scale and position are never set by the parser and are left out
ItemDefinition(name, type, size, status_values, is_constant, is_static, is_parallel, initial_value, line_number, column_start, column_end, parent_table) ==
    [name |-> name, type |-> type, size |-> size, status_values |-> status_values,
     is_constant |-> is_constant, is_static |-> is_static, is_parallel |-> is_parallel,
     initial_value |-> initial_value, line_number |-> line_number,
     column_start |-> column_start, column_end |-> column_end,
     parent_table |-> parent_table]

\* ItemDefinition(name=, type=UNKNOWN, line_number=) with the dataclass defaults
ItemStub(name, line_number) ==
    ItemDefinition(name, "UNKNOWN", None, <<>>, FALSE, FALSE, FALSE, None, line_number, 0, 0, None)

\* TableDefinition(...) with entries = {} and line_end = 0
TableDefinition(name, dimensions, is_constant, is_static, is_parallel, wordsize, line_start) ==
    [name |-> name, dimensions |-> dimensions, entries |-> EmptyDict,
     is_constant |-> is_constant, is_static |-> is_static, is_parallel |-> is_parallel,
     wordsize |-> wordsize, line_start |-> line_start, line_end |-> 0]

\* ProcDefinition(...) with local_items = {}, line_end = 0, body_start = 0;
\* return_type, is_recursive, is_reentrant and local_tables are never set
ProcDefinition(name, parameters, line_start) ==
    [name |-> name, parameters |-> parameters, local_items |-> EmptyDict,
     line_start |-> line_start, line_end |-> 0, body_start |-> 0]

DefineConstant(name, value, line_number) ==
    [name |-> name, value |-> value, line_number |-> line_number]

\* JovialSemanticModel.__init__; current_scope stays "GLOBAL" and scope_stack empty
NewModel ==
    [items |-> EmptyDict, tables |-> EmptyDict, procs |-> EmptyDict,
     compools |-> EmptyDict, defines |-> EmptyDict, types |-> EmptyDict,
     current_scope |-> "GLOBAL", program_name |-> None, module_type |-> None]

\* JovialSemanticModel.add_item
add_item(m, item) ==
    LET key == IF m.current_scope # "GLOBAL" THEN m.current_scope \o "." \o item.name
               ELSE item.name
    IN  [m EXCEPT !.items = Put(Put(m.items, item.name, item), key, item)]

\* JovialSemanticModel.get_item
get_item(m, name) ==
    LET scoped_name == m.current_scope \o "." \o name
    IN  IF scoped_name \in DOMAIN m.items THEN Some(m.items[scoped_name])
        ELSE IF name \in DOMAIN m.items THEN Some(m.items[name])
        ELSE None

\* JovialSemanticModel.add_table
add_table(m, table) == [m EXCEPT !.tables = Put(m.tables, table.name, table)]

\* JovialSemanticModel.get_table
get_table(m, name) == IF name \in DOMAIN m.tables THEN Some(m.tables[name]) ELSE None

\* JovialSemanticModel.add_proc
add_proc(m, proc) == [m EXCEPT !.procs = Put(m.procs, proc.name, proc)]

\* JovialSemanticModel.get_proc
get_proc(m, name) == IF name \in DOMAIN m.procs THEN Some(m.procs[name]) ELSE None

\* JovialSemanticModel.get_all_symbols: list(set(...)), the order being unspecified
get_all_symbols(m) ==
    DOMAIN m.items \cup DOMAIN m.tables \cup DOMAIN m.procs \cup DOMAIN m.defines

(***************************************************************************)
(* Statement recognisers: the regular expressions of the parser            *)
(***************************************************************************)
RECURSIVE RemoveFrom(_, _, _)
RemoveFrom(line, k, in_string) ==
    IF k > Len(line) THEN ""
    ELSE LET c == Ch(line, k)
         IN  IF c = "\"" /\ ~in_string THEN ""
             ELSE IF c = "'" THEN c \o RemoveFrom(line, k + 1, ~in_string)
             ELSE c \o RemoveFrom(line, k + 1, in_string)

\* JovialSemanticParser._remove_comments
remove_comments(line) == RemoveFrom(line, 1, FALSE)

\* KEYWORD\s+([A-Z][A-Z0-9']*) at the start of stmt: the positions of the name,
\* <<first, after>>, or <<>> when the head does not match
HeadName(stmt, keyword) ==
    LET k == SkipSpaces(stmt, Len(keyword) + 1)
    IN  IF /\ MatchAt(Upper(stmt), 1, keyword)
           /\ k > Len(keyword) + 1
           /\ k <= Len(stmt)
           /\ IsAlpha(Ch(stmt, k))
        THEN <<k, SkipIdent(stmt, k + 1)>>
        ELSE <<>>

\* one alternative, word\s+, at position k of the upper-cased statement: the
\* position after it, 0 when it does not match
AttrEnd(u, k, word) ==
    LET e == SkipSpaces(u, k + Len(word))
    IN  IF MatchAt(u, k, word) /\ e > k + Len(word) THEN e ELSE 0

RECURSIVE AttrFrom(_, _, _)
\* the alternatives of (STATIC\s+|CONSTANT\s+|PARALLEL\s+) from the w-th on, in
\* the order written: the position after the first that matches, 0 when none does
AttrFrom(u, k, w) ==
    IF w > Len(AttrWords) THEN 0
    ELSE IF AttrEnd(u, k, AttrWords[w]) # 0 THEN AttrEnd(u, k, AttrWords[w])
    ELSE AttrFrom(u, k, w + 1)

\* one iteration of (STATIC\s+|CONSTANT\s+|PARALLEL\s+) at position k
AttrAt(u, k) == AttrFrom(u, k, 1)

RECURSIVE AttrRuns(_, _)
\* the greedy iterations of (...)*: the start positions of each iteration and
\* the position after the last, in order
AttrRuns(u, k) == IF AttrAt(u, k) = 0 THEN <<k>> ELSE <<k>> \o AttrRuns(u, AttrAt(u, k))

RECURSIVE TypeFrom(_, _, _)
TypeFrom(u, k, t) ==
    IF t > Len(TypeAbbrevs) THEN ""
    ELSE IF MatchAt(u, k, TypeAbbrevs[t]) THEN TypeAbbrevs[t]
    ELSE TypeFrom(u, k, t + 1)

\* (S|U|F|A|B|C|P|STATUS) at position k: the first alternative, in the order
\* written, that matches; "" when none does
TypeAt(u, k) == TypeFrom(u, k, 1)

\* how many of the positions in runs the match keeps: the engine gives up the
\* last iteration of the attribute group when no type follows it; 0 when no
\* type can be matched at all
KeptRuns(u, runs) ==
    IF TypeAt(u, runs[Len(runs)]) # "" THEN Len(runs)
    ELSE IF Len(runs) > 1 THEN Len(runs) - 1 ELSE 0

\* \s*(\d+)?(.*) after the type, which ends before position k
ItemGroups(stmt, name, attrs, type_abbrev, k) ==
    LET k3 == SkipSpaces(stmt, k)
        d  == SkipDigits(stmt, k3)
    IN  [ok    |-> TRUE,
         name  |-> name,
         attrs |-> attrs,
         type_abbrev |-> type_abbrev,
         size  |-> IF d > k3 THEN Some(DecimalValue(SubSeq(stmt, k3, d - 1))) ELSE None,
         rest  |-> From(stmt, d)]

\* (STATIC\s+|CONSTANT\s+|PARALLEL\s+)*(S|U|F|A|B|C|P|STATUS) with the iterations
\* at runs, m of them kept; a repeated group keeps its last iteration
ItemTyped(stmt, hn, runs, m) ==
    IF m = 0 THEN [ok |-> FALSE]
    ELSE ItemGroups(stmt,
                    SubSeq(stmt, hn[1], hn[2] - 1),
                    IF m > 1 THEN SubSeq(stmt, runs[m - 1], runs[m] - 1) ELSE "",
                    TypeAt(Upper(stmt), runs[m]),
                    runs[m] + Len(TypeAt(Upper(stmt), runs[m])))

\* \s+ after the name at hn, then the attribute group from position k on
ItemNamed(stmt, hn, k) ==
    IF hn = <<>> \/ k = hn[2] THEN [ok |-> FALSE]
    ELSE ItemTyped(stmt, hn, AttrRuns(Upper(stmt), k),
                   KeptRuns(Upper(stmt), AttrRuns(Upper(stmt), k)))

\* re.match(r'ITEM\s+([A-Z][A-Z0-9\']*)\s+(STATIC\s+|CONSTANT\s+|PARALLEL\s+)*'
\*          r'(S|U|F|A|B|C|P|STATUS)\s*(\d+)?(.*)', stmt, re.IGNORECASE)
ItemMatch(stmt) ==
    ItemNamed(stmt, HeadName(stmt, "ITEM"),
              IF HeadName(stmt, "ITEM") = <<>> THEN 0
              ELSE SkipSpaces(stmt, HeadName(stmt, "ITEM")[2]))

\* V\s*\(\s*([A-Z][A-Z0-9']*)\s*\) at position k: <<name, position after>> or <<>>
StatusValueAt(s, k) ==
    LET a == SkipSpaces(s, k + 1)
        b == SkipSpaces(s, a + 1)
        c == SkipIdent(s, b + 1)
        d == SkipSpaces(s, c)
    IN  IF /\ k <= Len(s) /\ UpperChar(Ch(s, k)) = "V"
           /\ a <= Len(s) /\ Ch(s, a) = "("
           /\ b <= Len(s) /\ IsAlpha(Ch(s, b))
           /\ d <= Len(s) /\ Ch(s, d) = ")"
        THEN <<SubSeq(s, b, c - 1), d + 1>>
        ELSE <<>>

RECURSIVE StatusValuesFrom(_, _)
StatusValuesFrom(s, k) ==
    IF k > Len(s) THEN <<>>
    ELSE LET hit == StatusValueAt(s, k)
         IN  IF hit = <<>> THEN StatusValuesFrom(s, k + 1)
             ELSE <<hit[1]>> \o StatusValuesFrom(s, hit[2])

\* STATUS_VALUE_PATTERN.findall(statement)
StatusValues(statement) == StatusValuesFrom(statement, 1)

\* re.search(r'=\s*(.+)$', rest), then group(1).strip(); rest has no trailing blank
InitialValue(rest) ==
    LET q == FindFrom(rest, "=", 1)
    IN  IF q = 0 \/ q = Len(rest) THEN None
        ELSE Some(Strip(From(rest, SkipSpaces(rest, q + 1))))

(***************************************************************************)
(* TABLE, PROC, TYPE, DEFINE, DEF, REF, START and COMPOOL                  *)
(***************************************************************************)
\* \s*\(([^)]+)\)\s*(.*) after the name at hn, k being the position after \s*
TableNamed(stmt, hn, k) ==
    LET c == FindFrom(stmt, ")", k + 1)
    IN  IF hn = <<>> THEN [ok |-> FALSE]
        ELSE IF k > Len(stmt) \/ Ch(stmt, k) # "(" \/ c = 0 \/ c = k + 1 THEN [ok |-> FALSE]
        ELSE [ok       |-> TRUE,
              name     |-> SubSeq(stmt, hn[1], hn[2] - 1),
              dims_str |-> SubSeq(stmt, k + 1, c - 1),
              attrs    |-> From(stmt, SkipSpaces(stmt, c + 1))]

\* the position after \s* following the name at hn
AfterName(stmt, hn) == IF hn = <<>> THEN 0 ELSE SkipSpaces(stmt, hn[2])

\* re.match(r'TABLE\s+([A-Z][A-Z0-9\']*)\s*\(([^)]+)\)\s*(.*)', stmt, re.IGNORECASE)
TableMatch(stmt) ==
    TableNamed(stmt, HeadName(stmt, "TABLE"), AfterName(stmt, HeadName(stmt, "TABLE")))

\* a bound of `lower:upper`: the text tested by .strip().lstrip('-').isdigit()
BoundIsNumeric(part) == IsDigits(LStripSet(Strip(part), {"-"}))

\* int(part.strip()) raises ValueError
BoundRaises(part) == BoundIsNumeric(part) /\ ~IntAccepts(Strip(part))

\* int(parts[k].strip()) if parts[k].strip().lstrip('-').isdigit() else 0
BoundValue(part) == IF BoundIsNumeric(part) THEN IntValue(Strip(part)) ELSE 0

\* one element of dim_parts: the (lower, upper) pair appended to dimensions
Dimension(dim_part) ==
    LET dim == Strip(dim_part)
        parts == Split(dim, ":")
    IN  IF Contains(dim, ":") THEN <<BoundValue(parts[1]), BoundValue(parts[2])>>
        ELSE <<1, IF IsDigits(dim) THEN DecimalValue(dim) ELSE 0>>

\* the loop over dims_str.split(',') raises ValueError
DimensionsRaise(dims_str) ==
    LET dim_parts == Split(dims_str, ",")
    IN  \E d \in 1..Len(dim_parts) :
            LET dim == Strip(dim_parts[d])
                parts == Split(dim, ":")
            IN  Contains(dim, ":") /\ (BoundRaises(parts[1]) \/ BoundRaises(parts[2]))

\* the dimensions list built by the loop over dims_str.split(',')
Dimensions(dims_str) ==
    LET dim_parts == Split(dims_str, ",")
    IN  [d \in 1..Len(dim_parts) |-> Dimension(dim_parts[d])]

RECURSIVE WordsizeFrom(_, _)
\* re.search(r'W\s+(\d+)', attrs, re.IGNORECASE) from position k on
WordsizeFrom(attrs, k) ==
    IF k > Len(attrs) THEN None
    ELSE LET a == SkipSpaces(attrs, k + 1)
             d == SkipDigits(attrs, a)
         IN  IF UpperChar(Ch(attrs, k)) = "W" /\ a > k + 1 /\ d > a
             THEN Some(DecimalValue(SubSeq(attrs, a, d - 1)))
             ELSE WordsizeFrom(attrs, k + 1)

RECURSIVE StripAll(_)
\* [p.strip() for p in parts if p.strip()]
StripAll(parts) ==
    IF parts = <<>> THEN <<>>
    ELSE (IF Strip(Head(parts)) = "" THEN <<>> ELSE <<Strip(Head(parts))>>)
         \o StripAll(Tail(parts))

WithMode(names, mode) == [k \in 1..Len(names) |-> <<names[k], mode>>]

\* Parameters without the `if ':' in params_str` branch
ParametersWithoutColon(params_str) ==
    IF params_str = "" THEN <<>> ELSE WithMode(StripAll(Split(params_str, ",")), "INOUT")

\* the parameters list of a PROC from the text between its parentheses
Parameters(params_str) ==
    LET in_out == Split(params_str, ":")
    IN  IF params_str = "" THEN <<>>
        ELSE IF Contains(params_str, ":")
        THEN WithMode(StripAll(Split(in_out[1], ",")), "IN")
             \o WithMode(StripAll(Split(in_out[2], ",")), "OUT")
        ELSE WithMode(StripAll(Split(params_str, ",")), "INOUT")

\* \s*(?:\(([^)]*)\))?\s*(.*) after the name at hn, k being the position after \s*
ProcNamed(stmt, hn, k) ==
    LET c == FindFrom(stmt, ")", k + 1)
        has_list == k <= Len(stmt) /\ Ch(stmt, k) = "(" /\ c # 0
    IN  IF hn = <<>> THEN [ok |-> FALSE]
        ELSE [ok         |-> TRUE,
              name       |-> SubSeq(stmt, hn[1], hn[2] - 1),
              params_str |-> IF has_list THEN SubSeq(stmt, k + 1, c - 1) ELSE ""]

\* re.match(r'PROC\s+([A-Z][A-Z0-9\']*)\s*(?:\(([^)]*)\))?\s*(.*)', stmt, re.IGNORECASE)
ProcMatch(stmt) ==
    ProcNamed(stmt, HeadName(stmt, "PROC"), AfterName(stmt, HeadName(stmt, "PROC")))

\* \s+(.+) after the name at hn, k being the position after the whitespace
TypeNamed(stmt, hn, k) ==
    IF hn = <<>> THEN [ok |-> FALSE]
    ELSE IF k = hn[2] \/ k > Len(stmt) THEN [ok |-> FALSE]
    ELSE [ok |-> TRUE, name |-> SubSeq(stmt, hn[1], hn[2] - 1), type_desc |-> From(stmt, k)]

\* re.match(r'TYPE\s+([A-Z][A-Z0-9\']*)\s+(.+)', stmt, re.IGNORECASE)
TypeMatch(stmt) ==
    TypeNamed(stmt, HeadName(stmt, "TYPE"), AfterName(stmt, HeadName(stmt, "TYPE")))

\* \s*=?\s*(.+) after the name at hn, a being the position after the first \s*;
\* when nothing is left for (.+) the engine gives back the `=`, and failing
\* that the last character of the name
DefineNamed(stmt, hn, a) ==
    LET b == IF a <= Len(stmt) /\ Ch(stmt, a) = "=" THEN a + 1 ELSE a
        c == SkipSpaces(stmt, b)
    IN  IF hn = <<>> THEN [ok |-> FALSE]
        ELSE IF c <= Len(stmt)
        THEN [ok |-> TRUE, name |-> SubSeq(stmt, hn[1], hn[2] - 1), value |-> From(stmt, c)]
        ELSE IF b > a
        THEN [ok |-> TRUE, name |-> SubSeq(stmt, hn[1], hn[2] - 1), value |-> From(stmt, a)]
        ELSE IF hn[2] - hn[1] >= 2
        THEN [ok |-> TRUE, name |-> SubSeq(stmt, hn[1], hn[2] - 2), value |-> Ch(stmt, hn[2] - 1)]
        ELSE [ok |-> FALSE]

\* re.match(r'DEFINE\s+([A-Z][A-Z0-9\']*)\s*=?\s*(.+)', stmt, re.IGNORECASE)
DefineMatch(stmt) ==
    DefineNamed(stmt, HeadName(stmt, "DEFINE"), AfterName(stmt, HeadName(stmt, "DEFINE")))

KindWords == <<"ITEM", "TABLE", "PROC">>

RECURSIVE KindFrom(_, _, _)
\* (ITEM|TABLE|PROC)? at position k: the alternative that matches, "" when the
\* optional group does not take part
KindFrom(u, k, w) ==
    IF w > Len(KindWords) THEN ""
    ELSE IF MatchAt(u, k, KindWords[w]) THEN KindWords[w]
    ELSE KindFrom(u, k, w + 1)

\* (ITEM|TABLE|PROC)?\s*([A-Z][A-Z0-9\']*) at position k, the keyword and its
\* \s+ being matched before it; the engine gives the kind word back when no
\* name follows it
ReferenceAt(stmt, k, kw) ==
    LET j == SkipSpaces(stmt, k + Len(kw))
    IN  IF kw # "" /\ j <= Len(stmt) /\ IsAlpha(Ch(stmt, j))
        THEN [ok |-> TRUE, kind |-> kw, name |-> SubSeq(stmt, j, SkipIdent(stmt, j + 1) - 1)]
        ELSE IF k <= Len(stmt) /\ IsAlpha(Ch(stmt, k))
        THEN [ok |-> TRUE, kind |-> "", name |-> SubSeq(stmt, k, SkipIdent(stmt, k + 1) - 1)]
        ELSE [ok |-> FALSE]

\* re.match(keyword + r'\s+(ITEM|TABLE|PROC)?\s*([A-Z][A-Z0-9\']*)', stmt, re.IGNORECASE)
\* for keyword DEF or REF
ReferenceMatch(stmt, keyword) ==
    IF \/ ~MatchAt(Upper(stmt), 1, keyword)
       \/ SkipSpaces(stmt, Len(keyword) + 1) = Len(keyword) + 1
    THEN [ok |-> FALSE]
    ELSE ReferenceAt(stmt, SkipSpaces(stmt, Len(keyword) + 1),
                     KindFrom(Upper(stmt), SkipSpaces(stmt, Len(keyword) + 1), 1))

\* re.match(keyword + r'\s+([A-Z][A-Z0-9\']*)?', statement, re.IGNORECASE) for
\* START, and with a mandatory name for COMPOOL: the name, "" when the optional
\* group is absent, None when there is no match
ModuleName(statement, keyword, optional) ==
    LET k == SkipSpaces(statement, Len(keyword) + 1)
        named == k <= Len(statement) /\ IsAlpha(Ch(statement, k))
    IN  IF ~MatchAt(Upper(statement), 1, keyword) \/ k = Len(keyword) + 1 THEN None
        ELSE IF named THEN Some(SubSeq(statement, k, SkipIdent(statement, k + 1) - 1))
        ELSE IF optional THEN Some("")
        ELSE None

(***************************************************************************)
(* What each handler reads off the statement text alone.  The handlers     *)
(* below combine it with the parser's context and the line number.         *)
(***************************************************************************)
\* statement.rstrip(';').strip()
Trimmed(statement) == Strip(RStripSet(statement, {";"}))

\* _parse_item_declaration after the match m: the fields of the item that
\* depend on the text only
ItemFields(statement, m) ==
    IF ~m.ok THEN [ok |-> FALSE]
    ELSE [ok |-> TRUE, name |-> m.name, type |-> type_map(m.type_abbrev), size |-> m.size,
          status_values |-> IF type_map(m.type_abbrev) = "STATUS" THEN StatusValues(statement)
                            ELSE <<>>,
          is_constant |-> Contains(Upper(m.attrs), "CONSTANT"),
          is_static |-> Contains(Upper(m.attrs), "STATIC"),
          is_parallel |-> Contains(Upper(m.attrs), "PARALLEL"),
          initial_value |-> InitialValue(m.rest),
          column_start |-> Find(Upper(statement), m.name),
          column_end |-> Find(Upper(statement), m.name) + Len(m.name)]

ItemText(statement) == ItemFields(statement, ItemMatch(Trimmed(statement)))

\* _parse_table_declaration after the match m: whether int() raises, and the
\* fields of the table
TableFields(m) ==
    IF ~m.ok THEN [ok |-> FALSE, raises |-> FALSE]
    ELSE IF DimensionsRaise(m.dims_str) THEN [ok |-> TRUE, raises |-> TRUE]
    ELSE [ok |-> TRUE, raises |-> FALSE, name |-> m.name,
          dimensions |-> Dimensions(m.dims_str),
          is_constant |-> Contains(Upper(m.attrs), "CONSTANT"),
          is_static |-> Contains(Upper(m.attrs), "STATIC"),
          is_parallel |-> Contains(Upper(m.attrs), "PARALLEL"),
          wordsize |-> WordsizeFrom(m.attrs, 1)]

TableText(statement) == TableFields(TableMatch(Trimmed(statement)))

\* _parse_proc_declaration after the match m: the parameter list
ProcFields(m) ==
    IF ~m.ok THEN [ok |-> FALSE]
    ELSE [ok |-> TRUE, name |-> m.name, parameters |-> Parameters(m.params_str)]

ProcText(statement) == ProcFields(ProcMatch(Trimmed(statement)))

\* the if/elif chain of _parse_statement on upper = statement.upper()
Branch(upper) ==
    IF StartsWith(upper, "START") THEN "START"
    ELSE IF StartsWith(upper, "TERM") THEN "TERM"
    ELSE IF StartsWith(upper, "COMPOOL") THEN "COMPOOL"
    ELSE IF upper = "BEGIN" THEN "BEGIN"
    ELSE IF upper = "END" THEN "END"
    ELSE IF StartsWith(upper, "ITEM") THEN "ITEM"
    ELSE IF StartsWith(upper, "TABLE") THEN "TABLE"
    ELSE IF StartsWith(upper, "PROC") THEN "PROC"
    ELSE IF StartsWith(upper, "TYPE") THEN "TYPE"
    ELSE IF StartsWith(upper, "DEFINE") THEN "DEFINE"
    ELSE IF StartsWith(upper, "DEF") /\ ~StartsWith(upper, "DEFINE") THEN "DEF"
    ELSE IF StartsWith(upper, "REF") THEN "REF"
    ELSE "NONE"

\* the branch _parse_statement takes
Dispatch(statement) == Branch(Upper(statement))

\* what the handler of the branch reads off the text of the statement
Matched(statement, branch) ==
    CASE branch = "START"   -> ModuleName(statement, "START", TRUE)
      [] branch = "COMPOOL" -> ModuleName(statement, "COMPOOL", FALSE)
      [] branch = "ITEM"    -> ItemText(statement)
      [] branch = "TABLE"   -> TableText(statement)
      [] branch = "PROC"    -> ProcText(statement)
      [] branch = "TYPE"    -> TypeMatch(Trimmed(statement))
      [] branch = "DEFINE"  -> DefineMatch(Trimmed(statement))
      [] branch \in {"DEF", "REF"} -> ReferenceMatch(Trimmed(statement), branch)
      [] OTHER              -> None

\* the branch taken on a statement and what the handler of that branch reads
\* off its text
Recognised(statement) ==
    [branch |-> Dispatch(statement), m |-> Matched(statement, Dispatch(statement))]

(***************************************************************************)
(* The source texts explored.  A text is a sequence of physical lines      *)
(* drawn from one family of lines; a family with slack k yields texts of   *)
(* at most MaxLines - k lines.                                             *)
(***************************************************************************)
MaxLines == 5

Families ==
    << \* table and proc headers, block markers and an item: every nesting
       [slack |-> 0,
        lines |-> {"TABLE T (1:2);", "PROC P;", "BEGIN", "END", "ITEM X S;"}],
       \* one name in several casings, declared as item, table, proc and define
       [slack |-> 2,
        lines |-> {"item lat f 32;", "ITEM LAT S 16 = 1;", "TABLE Lat (1:100) W 16;",
                   "PROC LAT (A, B : C);", "DEFINE Lat = 50000;"}],
       \* STATUS items, table bounds, and a statement left unterminated in a body
       [slack |-> 2,
        lines |-> {"ITEM MODE STATUS (V(NORMAL), V(WARN));", "ITEM FLAG STATIC STATUS;",
                   "TABLE T (--5:10);", "TABLE W (-5:x, 7);", "BEGIN", "ITEM Y", "END;"}],
       \* module statements, references, statements split over lines, comments
       [slack |-> 3,
        lines |-> {"START FLIGHT'CONTROL;", "TERM", "COMPOOL NAV'DATA;", "TYPE ANGLE F 32;",
                   "DEF ITEM D1;", "REF PROC R1;", "X = 1;", "", "ITEM Y",
                   "  S 16; \" size"}],
       \* single statements: a comment after an apostrophe, leading words that
       \* begin with a keyword, declarations cut short after the name, parameter
       \* lists, single and negative table bounds, references of every kind
       [slack |-> 4,
        lines |-> {"START NAV'SYS; \" main", "STARTUP = 1;", "COMPOOLS X;", "ITEMS = 3;",
                   "ITEM AB;", "TABLE AB;", "TYPE AB;", "DEFINE AB;",
                   "PROC Q ();", "PROC R (A,, B);", "PROC U (A : B, C);",
                   "TABLE N (-5);", "TABLE M (7, -2:x);",
                   "DEF D3;", "DEF TABLE D2;", "DEF PROC D4;", "REF R2;"}],
       \* statements split over lines, with blank and comment-only lines
       [slack |-> 2,
        lines |-> {"ITEM Y", "  S 16; \" size", "", "\" note", "TABLE W", "(1:2) W 8;",
                   "(--5:10);"}] >>

\* the lines a text of family f is made of, and its greatest length
Pool(f) == Families[f].lines

MaxLen(f) == MaxLines - Families[f].slack

AllLines == UNION { Pool(f) : f \in 1..Len(Families) }

(***************************************************************************)
(* Tables of the text-only functions over the lines above.  They hold the  *)
(* values of Stripped, Completes and Recognised, computed once; a          *)
(* statement that is no single line of a family is computed directly.      *)
(***************************************************************************)
BlockMarkers == {"BEGIN", "END", "START", "TERM"}

\* line.strip() after comment removal
Stripped(line) == Strip(remove_comments(line))

\* "statement is complete": ends with a semicolon or is a block marker
Completes(stripped) == EndsWith(stripped, ";") \/ Upper(stripped) \in BlockMarkers

\* what the loop of parse needs of a line
LineEntry(stripped) == [stripped |-> stripped, completes |-> Completes(stripped)]

LineTable == [line \in AllLines |-> LineEntry(Stripped(line))]

\* the statements that are one line of a family
Statements == { LineTable[line].stripped : line \in AllLines }

StatementTable == [statement \in Statements |-> Recognised(statement)]

\* LineEntry(Stripped(line))
LineOf(line) ==
    IF line \in AllLines THEN LineTable[line] ELSE LineEntry(Stripped(line))

\* Recognised(statement)
Text(statement) ==
    IF statement \in Statements THEN StatementTable[statement] ELSE Recognised(statement)

(***************************************************************************)
(* The parser instance and its statement handlers.  A parser value p is    *)
(* the JovialSemanticParser object: its model, its lines and its context.  *)
(***************************************************************************)
\* JovialSemanticParser.__init__
NewParser ==
    [model |-> NewModel, lines |-> <<>>, current_line_num |-> 0,
     in_table_body |-> FALSE, current_table |-> None,
     in_proc_body |-> FALSE, current_proc |-> None, in_compool |-> FALSE]

\* parse_reset without the "Reset state" block: the context of the previous
\* call survives
parse_reset_model_only(p) ==
    [p EXCEPT !.model = NewModel, !.lines = <<>>, !.current_line_num = 0]

\* the entry of JovialSemanticParser.parse: a fresh model and the context reset
parse_reset(p) ==
    [p EXCEPT !.model = NewModel, !.lines = <<>>, !.current_line_num = 0,
              !.in_table_body = FALSE, !.current_table = None,
              !.in_proc_body = FALSE, !.current_proc = None, !.in_compool = FALSE]

\* JovialSemanticParser._parse_start, name being ModuleName of the statement
parse_start(p, name, line_num) ==
    [p EXCEPT !.model.program_name = IF name # None /\ name # Some("") THEN name ELSE @,
              !.model.module_type = Some("MAIN")]

\* JovialSemanticParser._parse_compool_start, name being ModuleName of the statement
parse_compool_start(p, name, line_num) ==
    [p EXCEPT !.model.program_name = IF name # None THEN name ELSE @,
              !.model.module_type = IF name # None THEN Some("COMPOOL") ELSE @,
              !.in_compool = TRUE]

\* "Add to appropriate container": the table's entries when a table is current
\* and its body entered, else the proc's local_items when a proc is current and
\* its body entered
place_item(p, item) ==
    IF p.current_table # None /\ p.in_table_body
    THEN IF get_table(p.model, p.current_table[1]) # None
         THEN [p EXCEPT !.model.tables[p.current_table[1]].entries = Put(@, item.name, item)]
         ELSE p
    ELSE IF p.current_proc # None /\ p.in_proc_body
    THEN IF get_proc(p.model, p.current_proc[1]) # None
         THEN [p EXCEPT !.model.procs[p.current_proc[1]].local_items = Put(@, item.name, item)]
         ELSE p
    ELSE p

\* the item is put in its container and then added to the model
declare_item(p, item) ==
    [p EXCEPT !.model = add_item(place_item(p, item).model, item)]

\* _parse_item_declaration without `parent_table=self.current_table`
parse_item_declaration_without_parent(p, m, line_num) ==
    IF m.ok
    THEN declare_item(p, ItemDefinition(m.name, m.type, m.size, m.status_values, m.is_constant,
                                        m.is_static, m.is_parallel, m.initial_value, line_num,
                                        m.column_start, m.column_end, None))
    ELSE p

\* JovialSemanticParser._parse_item_declaration, m being ItemText of the statement
parse_item_declaration(p, m, line_num) ==
    IF m.ok
    THEN declare_item(p, ItemDefinition(m.name, m.type, m.size, m.status_values, m.is_constant,
                                        m.is_static, m.is_parallel, m.initial_value, line_num,
                                        m.column_start, m.column_end, p.current_table))
    ELSE p

\* JovialSemanticParser._parse_table_declaration, m being TableText of the
\* statement, when int() does not raise
parse_table_declaration(p, m, line_num) ==
    IF m.ok
    THEN [p EXCEPT !.model = add_table(p.model,
                                 TableDefinition(m.name, m.dimensions, m.is_constant, m.is_static,
                                                 m.is_parallel, m.wordsize, line_num)),
                   !.current_table = Some(m.name)]
    ELSE p

\* JovialSemanticParser._parse_proc_declaration, m being ProcText of the statement
parse_proc_declaration(p, m, line_num) ==
    IF m.ok
    THEN [p EXCEPT !.model = add_proc(p.model, ProcDefinition(m.name, m.parameters, line_num)),
                   !.current_proc = Some(m.name)]
    ELSE p

\* JovialSemanticParser._parse_type_declaration, m being TypeMatch of the statement
parse_type_declaration(p, m, line_num) ==
    IF m.ok
    THEN [p EXCEPT !.model.types =
             Put(@, m.name, [name |-> m.name, description |-> m.type_desc, line |-> line_num])]
    ELSE p

\* JovialSemanticParser._parse_define, m being DefineMatch of the statement
parse_define(p, m, line_num) ==
    IF m.ok
    THEN [p EXCEPT !.model.defines = Put(@, m.name, DefineConstant(m.name, m.value, line_num))]
    ELSE p

\* JovialSemanticParser._parse_def_reference, m being ReferenceMatch of the statement
parse_def_reference(p, m, line_num) ==
    IF m.ok /\ m.kind \in {"ITEM", ""}
    THEN [p EXCEPT !.model = add_item(p.model, ItemStub(m.name, line_num))]
    ELSE p

\* JovialSemanticParser._parse_ref_reference, m being ReferenceMatch of the statement
parse_ref_reference(p, m, line_num) ==
    IF m.ok /\ m.kind \in {"PROC", ""}
    THEN [p EXCEPT !.model = add_proc(p.model, ProcDefinition(m.name, <<>>, line_num))]
    ELSE p

\* BEGIN enters both bodies whether or not a table or proc is current
handle_begin_always(p, line_num) ==
    IF p.current_proc # None /\ get_proc(p.model, p.current_proc[1]) # None
    THEN [p EXCEPT !.in_table_body = TRUE, !.in_proc_body = TRUE,
                   !.model.procs[p.current_proc[1]].body_start = line_num]
    ELSE [p EXCEPT !.in_table_body = TRUE, !.in_proc_body = TRUE]

\* JovialSemanticParser._handle_begin
handle_begin(p, line_num) ==
    LET q == IF p.current_table # None THEN [p EXCEPT !.in_table_body = TRUE] ELSE p
    IN  IF q.current_proc # None
        THEN IF get_proc(q.model, q.current_proc[1]) # None
             THEN [q EXCEPT !.in_proc_body = TRUE,
                            !.model.procs[q.current_proc[1]].body_start = line_num]
             ELSE [q EXCEPT !.in_proc_body = TRUE]
        ELSE q

\* JovialSemanticParser._handle_end
handle_end(p, line_num) ==
    IF p.in_table_body
    THEN LET q == [p EXCEPT !.in_table_body = FALSE, !.current_table = None]
         IN  IF p.current_table # None /\ get_table(p.model, p.current_table[1]) # None
             THEN [q EXCEPT !.model.tables[p.current_table[1]].line_end = line_num]
             ELSE q
    ELSE IF p.in_proc_body
    THEN LET q == [p EXCEPT !.in_proc_body = FALSE, !.current_proc = None]
         IN  IF p.current_proc # None /\ get_proc(p.model, p.current_proc[1]) # None
             THEN [q EXCEPT !.model.procs[p.current_proc[1]].line_end = line_num]
             ELSE q
    ELSE p

\* JovialSemanticParser._parse_statement, t being Recognised of the statement,
\* when no handler raises
parse_statement(p, t, line_num) ==
    CASE t.branch = "START"   -> parse_start(p, t.m, line_num)
      [] t.branch = "TERM"    -> p
      [] t.branch = "COMPOOL" -> parse_compool_start(p, t.m, line_num)
      [] t.branch = "BEGIN"   -> handle_begin(p, line_num)
      [] t.branch = "END"     -> handle_end(p, line_num)
      [] t.branch = "ITEM"    -> parse_item_declaration(p, t.m, line_num)
      [] t.branch = "TABLE"   -> parse_table_declaration(p, t.m, line_num)
      [] t.branch = "PROC"    -> parse_proc_declaration(p, t.m, line_num)
      [] t.branch = "TYPE"    -> parse_type_declaration(p, t.m, line_num)
      [] t.branch = "DEFINE"  -> parse_define(p, t.m, line_num)
      [] t.branch = "DEF"     -> parse_def_reference(p, t.m, line_num)
      [] t.branch = "REF"     -> parse_ref_reference(p, t.m, line_num)
      [] OTHER                -> p

\* _parse_statement raises ValueError, t being Recognised of the statement
statement_raises(t) == t.branch = "TABLE" /\ t.m.raises

(***************************************************************************)
(* The line loop of parse, as a function                                   *)
(***************************************************************************)
\* statement_buffer += " " + stripped
Accumulated(buffer, stripped) == buffer \o " " \o stripped

\* `self._parse_statement(statement_buffer.strip(), i)` and `statement_buffer = ""`,
\* t being Recognised of the stripped buffer
parse_buffer(p, buffer, t, i) ==
    IF statement_raises(t) THEN [p |-> p, buffer |-> buffer, raised |-> TRUE]
    ELSE [p |-> parse_statement(p, t, i), buffer |-> "", raised |-> FALSE]

\* the body of the loop for a line that is not blank, l being LineOf the line
\* and buffer the statement buffer with the line appended
parse_stripped(p, l, buffer, i) ==
    IF ~l.completes THEN [p |-> p, buffer |-> buffer, raised |-> FALSE]
    ELSE parse_buffer(p, buffer, Text(Strip(buffer)), i)

\* one iteration of the loop of parse over line number i (0-based), as a
\* function of the loop state [p, buffer, raised]
parse_line(st, line, i) ==
    IF st.raised THEN st
    ELSE IF LineOf(line).stripped = "" THEN [st EXCEPT !.p.current_line_num = i]
    ELSE parse_stripped([st.p EXCEPT !.current_line_num = i], LineOf(line),
                        Accumulated(st.buffer, LineOf(line).stripped), i)

RECURSIVE parse_lines(_, _, _)
\* the loop of parse from line number i on
parse_lines(st, lines, i) ==
    IF i >= Len(lines) THEN st
    ELSE parse_lines(parse_line(st, lines[i + 1], i), lines, i + 1)

\* JovialSemanticParser.parse(text) on parser p, the text given as its lines
\* (jovial_code.split('\n')): the loop state when the call ends
parse(p, lines) ==
    parse_lines([p |-> [parse_reset(p) EXCEPT !.lines = lines], buffer |-> "", raised |-> FALSE],
                lines, 0)

(***************************************************************************)
(* The language server's document store                                    *)
(***************************************************************************)
Uris == {"file:///a.jov", "file:///b.jov"}

\* a table with two entries
ScenarioB == "TABLE WAYPOINTS (1:100);\nBEGIN\n  ITEM LAT F 32;\n  ITEM LON F 32;\nEND"

\* the texts a client sends
DocTexts ==
    {"ITEM X S;",
     "TABLE T (1:2);\nBEGIN\nITEM X S;\nEND",
     "PROC P (A : B);\nBEGIN\nEND",
     "item lat f 32;\nTABLE LAT (1:2);",
     "TABLE T (--5:10);",
     "ITEM X S;\nTABLE T (1:--2);",
     "ITEM LAT S;\nITEM NEW'LAT S;",
     ScenarioB}

MaxChanges == 2

\* the texts of the changes a client sends: one that parses and the two that
\* make the parser raise (a change to a text that parses leaves the server
\* as a didOpen with that text does)
ChangeTexts == {"ITEM X S;", "TABLE T (--5:10);", "ITEM X S;\nTABLE T (1:--2);"}

\* contentChanges: a list of changes, each with a text or without the key
ChangeLists ==
    UNION { [1..n -> { Some(t) : t \in ChangeTexts } \cup {None}] : n \in 0..MaxChanges }

\* parser.parse(text) on a new parser, computed once per text
ParsedTable == [text \in DocTexts \cup {""} |-> parse(NewParser, Split(text, "\n"))]

ParseText(text) ==
    IF text \in DocTexts \cup {""} THEN ParsedTable[text]
    ELSE parse(NewParser, Split(text, "\n"))

\* the model is stored under the URI and under every URI that has a model
store_model_all(mods, uri, parsed) ==
    IF parsed.raised THEN mods ELSE [u \in DOMAIN mods \cup {uri} |-> parsed.p.model]

\* `self.models[uri] = model`, parsed being the outcome of parser.parse: when
\* parse raises the exception leaves the handler before the assignment
store_model(mods, uri, parsed) ==
    IF parsed.raised THEN mods ELSE Put(mods, uri, parsed.p.model)

\* JovialLSPServer._parse_document: the models afterwards
parse_document(docs, mods, uri) ==
    IF uri \notin DOMAIN docs THEN mods
    ELSE store_model(mods, uri, ParseText(docs[uri]))

\* changes[-1].get('text', '')
LastText(changes) ==
    IF changes[Len(changes)] = None THEN "" ELSE changes[Len(changes)][1]

(***************************************************************************)
(* Bookkeeping about the text read so far, kept beside the parser to state *)
(* properties of block structure: the blocks opened by BEGIN and not yet   *)
(* closed, the header whose BEGIN is still to come, the END line of each   *)
(* closed container, and where the last ITEM went.                         *)
(***************************************************************************)
NewBlocks == [open |-> <<>>, pending |-> None, closed |-> EmptyDict, last_item |-> None]

\* a TABLE or PROC statement was handled, its header matching as m
BlocksHeader(g, kind, m, line_num) ==
    IF ~m.ok THEN g
    ELSE [g EXCEPT !.pending = Some([kind |-> kind, name |-> m.name, line |-> line_num]),
                   !.closed = Drop(@, <<kind, m.name>>)]

\* a BEGIN opens the body of the pending header, or else a plain block
BlocksBegin(g) ==
    [g EXCEPT !.open = Append(@, IF g.pending # None THEN g.pending[1]
                                 ELSE [kind |-> "block", name |-> "", line |-> 0]),
              !.pending = None]

\* an END closes the block opened last
BlocksEnd(g, line_num) ==
    LET top == g.open[Len(g.open)]
    IN  IF g.open = <<>> THEN g
        ELSE [g EXCEPT !.open = SubSeq(@, 1, Len(@) - 1),
                       !.closed = IF top.kind = "block" THEN @
                                  ELSE Put(@, <<top.kind, top.name>>,
                                           [line_start |-> top.line, line_end |-> line_num])]

\* the containers (tables and procs) among the open blocks, outermost first
OpenContainers(g) == SelectSeq(g.open, LAMBDA b : b.kind # "block")

\* the containers of model m that hold an item equal to item under its name
Holders(m, item) ==
    { <<"table", t>> : t \in { t \in DOMAIN m.tables :
          item.name \in DOMAIN m.tables[t].entries /\ m.tables[t].entries[item.name] = item } }
    \cup
    { <<"proc", q>> : q \in { q \in DOMAIN m.procs :
          item.name \in DOMAIN m.procs[q].local_items /\ m.procs[q].local_items[item.name] = item } }

\* an ITEM statement that matches as m was handled on line line_num, leaving
\* the parser as q
BlocksItem(g, q, statement, m, line_num) ==
    IF ~m.ok THEN [g EXCEPT !.last_item = Some([statement |-> statement, recorded |-> FALSE])]
    ELSE [g EXCEPT !.last_item =
             Some([statement |-> statement,
                   recorded |-> TRUE,
                   name |-> m.name,
                   line |-> line_num,
                   depth |-> Len(OpenContainers(g)),
                   header |-> g.pending # None,
                   innermost |-> IF OpenContainers(g) = <<>> THEN None
                                 ELSE Some(<<OpenContainers(g)[Len(OpenContainers(g))].kind,
                                             OpenContainers(g)[Len(OpenContainers(g))].name>>),
                   into |-> Holders(q.model, q.model.items[m.name])])]

(***************************************************************************)
(* The queries of the parser: completions and hover.  A payload is the     *)
(* dict the method returns; the entries of a table payload are given as    *)
(* the set of their names.                                                 *)
(***************************************************************************)
\* JovialSemanticParser.KEYWORDS
KEYWORDS ==
    {"START", "TERM", "BEGIN", "END", "COMPOOL", "PROGRAM", "ITEM", "TABLE", "PROC",
     "TYPE", "DEFINE", "DEF", "REF", "S", "U", "F", "A", "B", "C", "P", "STATUS",
     "LIKE", "STATIC", "CONSTANT", "PARALLEL", "OVERLAY", "POS", "W", "D", "ROUND",
     "TRUNCATE", "DENSE", "BLOCK", "IF", "THEN", "ELSE", "FOR", "BY", "WHILE", "UNTIL",
     "CASE", "DEFAULT", "FALLTHRU", "GOTO", "EXIT", "ABORT", "RETURN", "STOP", "AND",
     "OR", "NOT", "XOR", "EQV", "MOD", "ABS", "SGN", "LOC", "NEXT", "BIT", "BYTE",
     "SHIFTL", "SHIFTR", "SHIFTLA", "SHIFTRA", "FIRST", "LAST", "LBOUND", "HBOUND",
     "NENT", "NWDSEN", "BITSIZE", "BYTESIZE", "WORDSIZE", "INPUT", "OUTPUT", "OPEN",
     "CLOSE"}

\* the dict of _get_keyword_description as (keyword, description) pairs
Descriptions ==
    { <<"START", "Begin main program module">>,
      <<"TERM", "End program module">>,
      <<"BEGIN", "Begin block">>,
      <<"END", "End block">>,
      <<"COMPOOL", "Communication pool module (shared data)">>,
      <<"ITEM", "Scalar variable declaration">>,
      <<"TABLE", "Array/structure declaration">>,
      <<"PROC", "Procedure declaration">>,
      <<"TYPE", "User-defined type declaration">>,
      <<"DEFINE", "Compile-time constant">>,
      <<"DEF", "Import from COMPOOL">>,
      <<"REF", "Reference to external">>,
      <<"S", "Signed integer type">>,
      <<"U", "Unsigned integer type">>,
      <<"F", "Floating-point type">>,
      <<"A", "Fixed-point (scaled) type">>,
      <<"B", "Bit string type">>,
      <<"C", "Character string type">>,
      <<"P", "Pointer type">>,
      <<"STATUS", "Enumeration type">>,
      <<"STATIC", "Static allocation (persistent)">>,
      <<"CONSTANT", "Read-only value">>,
      <<"PARALLEL", "Parallel allocation for bit-packing">>,
      <<"IF", "Conditional statement">>,
      <<"FOR", "Counted loop">>,
      <<"WHILE", "Conditional loop (test before)">>,
      <<"UNTIL", "Conditional loop (test after)">>,
      <<"CASE", "Multi-way branch">>,
      <<"GOTO", "Unconditional branch">>,
      <<"RETURN", "Return from procedure">>,
      <<"EXIT", "Exit from loop">>,
      <<"ABORT", "Abort program execution">>,
      <<"LOC", "Location (address) function">>,
      <<"NEXT", "Next value in sequence">>,
      <<"BIT", "Bit extraction function">>,
      <<"BYTE", "Byte extraction function">>,
      <<"SHIFTL", "Shift left">>,
      <<"SHIFTR", "Shift right">> }

\* descriptions.get(keyword, f'J73 keyword: {keyword}')
get_keyword_description(keyword) ==
    IF \E d \in Descriptions : d[1] = keyword
    THEN (CHOOSE d \in Descriptions : d[1] = keyword)[2]
    ELSE "J73 keyword: " \o keyword

\* the characters of names in the order of their code points
CodePoints == "'" \o DigitChars \o UpperChars \o LowerChars

RECURSIVE Before(_, _)
\* a < b for str
Before(a, b) ==
    IF a = "" THEN b # ""
    ELSE IF b = "" THEN FALSE
    ELSE IF Ch(a, 1) = Ch(b, 1) THEN Before(Tail(a), Tail(b))
    ELSE IndexIn(CodePoints, Ch(a, 1)) < IndexIn(CodePoints, Ch(b, 1))

\* sorted(names) for a set of names: a name stands after the names before it
Sorted(names) ==
    LET before == [a \in names |-> Cardinality({ b \in names : Before(b, a) })]
    IN  [k \in 1..Cardinality(names) |-> CHOOSE a \in names : before[a] = k - 1]

\* sorted(KEYWORDS), computed once
SortedKeywords == Sorted(KEYWORDS)

\* the sorted list with the name put in its place, unless it is there already
Inserted(sorted, name) ==
    IF \E k \in 1..Len(sorted) : sorted[k] = name THEN sorted
    ELSE SelectSeq(sorted, LAMBDA a : Before(a, name)) \o <<name>>
         \o SelectSeq(sorted, LAMBDA a : Before(name, a))

RECURSIVE InsertedAll(_, _)
\* sorted(set(a + names)) for a sorted list a without duplicates
InsertedAll(sorted, names) ==
    IF names = <<>> THEN sorted
    ELSE InsertedAll(Inserted(sorted, Head(names)), Tail(names))

\* s[:column]
SliceTo(s, column) ==
    IF column >= 0 THEN SubSeq(s, 1, IF column < Len(s) THEN column ELSE Len(s))
    ELSE SubSeq(s, 1, Len(s) + column)

RECURSIVE LastTokenFrom(_, _)
\* the start of the run of non-whitespace characters that ends s, from k down
LastTokenFrom(s, k) == IF k >= 1 /\ ~IsSpace(Ch(s, k)) THEN LastTokenFrom(s, k - 1) ELSE k + 1

\* head.split()[-1] if head else "", head being stripped
LastToken(head) == IF head = "" THEN "" ELSE From(head, LastTokenFrom(head, Len(head)))

\* CompletionPrefix with the text before the cursor left out of account
CompletionPrefixEmpty(current_line, column) == ""

\* prefix = current_line[:column].strip().split()[-1] if ... else "", upper-cased
CompletionPrefix(current_line, column) == Upper(LastToken(Strip(SliceTo(current_line, column))))

\* sorted(set(completions)) for the prefix and the symbols of the model
Completions(prefix, symbols) ==
    InsertedAll(SelectSeq(SortedKeywords, LAMBDA kw : StartsWith(kw, prefix)),
                Sorted({ symbol \in symbols : StartsWith(Upper(symbol), prefix) }))

\* JovialSemanticParser.get_completions_at_position, p.lines being 0-based in the source
get_completions_at_position(p, line, column) ==
    IF line < 0 \/ line >= Len(p.lines) THEN <<>>
    ELSE Completions(CompletionPrefix(p.lines[line + 1], column), get_all_symbols(p.model))

\* \w of the regular expressions
IsWordChar(c) == IsAlpha(c) \/ IsDigit(c) \/ c = "_"

\* \b at position k of s: exactly one of the characters before and at k is \w
Boundary(s, k) ==
    (k > 1 /\ IsWordChar(Ch(s, k - 1))) # (k <= Len(s) /\ IsWordChar(Ch(s, k)))

RECURSIVE WordEnd(_, _, _)
\* ([A-Z][A-Z0-9']*)\b from position k: the position after the longest match
\* that ends at a boundary, e being the position after the run; 0 when none
WordEnd(s, k, e) ==
    IF e <= k THEN 0
    ELSE IF Boundary(s, e) THEN e
    ELSE WordEnd(s, k, e - 1)

\* the position after the match of \b([A-Z][A-Z0-9']*)\b at k, 0 when none
WordMatchAt(s, k) ==
    IF IsAlpha(Ch(s, k)) /\ Boundary(s, k) THEN WordEnd(s, k, SkipIdent(s, k)) ELSE 0

RECURSIVE WordAnywhere(_, _, _)
\* the first match from k on, wherever the column is
WordAnywhere(s, k, column) ==
    IF k > Len(s) THEN None
    ELSE IF WordMatchAt(s, k) = 0 THEN WordAnywhere(s, k + 1, column)
    ELSE Some(SubSeq(s, k, WordMatchAt(s, k) - 1))

RECURSIVE WordFrom(_, _, _)
\* the loop over re.finditer: the first match from k on with
\* match.start() <= column <= match.end(), None when there is none
WordFrom(s, k, column) ==
    IF k > Len(s) THEN None
    ELSE IF WordMatchAt(s, k) = 0 THEN WordFrom(s, k + 1, column)
    ELSE IF k - 1 <= column /\ column <= WordMatchAt(s, k) - 1
    THEN Some(SubSeq(s, k, WordMatchAt(s, k) - 1))
    ELSE WordFrom(s, WordMatchAt(s, k), column)

RECURSIVE Digits(_)
\* str(n) for n >= 0
Digits(n) == IF n < 10 THEN Ch(DigitChars, n + 1) ELSE Digits(n \div 10) \o Ch(DigitChars, (n % 10) + 1)

\* str(n)
IntText(n) == IF n < 0 THEN "-" \o Digits(0 - n) ELSE Digits(n)

RECURSIVE Joined(_, _)
\* sep.join(parts)
Joined(parts, sep) ==
    IF parts = <<>> THEN ""
    ELSE IF Len(parts) = 1 THEN parts[1]
    ELSE parts[1] \o sep \o Joined(Tail(parts), sep)

\* the payload of an item
ItemPayload(item) ==
    [type |-> "item", name |-> item.name, jovial_type |-> item.type, size |-> item.size,
     is_constant |-> item.is_constant, is_static |-> item.is_static,
     status_values |-> item.status_values, initial_value |-> item.initial_value,
     line |-> item.line_number]

\* the payload of a table
TablePayload(table) ==
    [type |-> "table", name |-> table.name,
     dimensions |-> Joined([d \in 1..Len(table.dimensions) |->
                               IntText(table.dimensions[d][1]) \o ":"
                                   \o IntText(table.dimensions[d][2])], ", "),
     entries |-> DOMAIN table.entries, wordsize |-> table.wordsize,
     line_start |-> table.line_start, line_end |-> table.line_end]

\* the payload of a proc
ProcPayload(proc) ==
    [type |-> "proc", name |-> proc.name,
     parameters |-> Joined([k \in 1..Len(proc.parameters) |->
                               proc.parameters[k][1] \o " (" \o proc.parameters[k][2] \o ")"],
                           ", "),
     line_start |-> proc.line_start, line_end |-> proc.line_end]

\* the payload of a keyword
KeywordPayload(word) ==
    [type |-> "keyword", name |-> word, description |-> get_keyword_description(word)]

\* get_hover_info after word = word_match.group(1).upper(): item, then table,
\* then proc, then keyword
HoverPayload(model, word) ==
    IF get_item(model, word) # None THEN Some(ItemPayload(get_item(model, word)[1]))
    ELSE IF get_table(model, word) # None THEN Some(TablePayload(get_table(model, word)[1]))
    ELSE IF get_proc(model, word) # None THEN Some(ProcPayload(get_proc(model, word)[1]))
    ELSE IF word \in KEYWORDS THEN Some(KeywordPayload(word))
    ELSE None

\* get_hover_info from `if not word_match` on
HoverWord(model, word_match) ==
    IF word_match = None THEN None ELSE HoverPayload(model, Upper(word_match[1]))

\* JovialSemanticParser.get_hover_info
get_hover_info(p, line, column) ==
    IF line < 0 \/ line >= Len(p.lines) THEN None
    ELSE HoverWord(p.model, WordFrom(p.lines[line + 1], 1, column))

(***************************************************************************)
(* The query handlers of the server.  A result is the `result` member of   *)
(* the response; of a completion item the label and the kind are kept, of  *)
(* a hover response the payload its markdown text is written from.         *)
(***************************************************************************)
\* the positions of the requests explored
MaxLine == 2

Lines == -1..MaxLine

Columns == {0, 6, 8, 40}

\* `parser = JovialSemanticParser()`, `parser.model = model`,
\* `parser.lines = self.documents[uri].split('\n')`
QueryParser(docs, mods, uri) ==
    [NewParser EXCEPT !.model = mods[uri], !.lines = Split(docs[uri], "\n")]

\* the kind of a completion item
CompletionKind(model, completion) ==
    IF completion \in KEYWORDS THEN 14
    ELSE IF completion \in DOMAIN model.procs THEN 3
    ELSE IF completion \in DOMAIN model.tables THEN 7
    ELSE IF completion \in DOMAIN model.items THEN 6
    ELSE IF completion \in DOMAIN model.defines THEN 21
    ELSE 6

\* the items of the completion response
CompletionItems(model, completions) ==
    [i \in 1..Len(completions) |->
        [label |-> completions[i], kind |-> CompletionKind(model, completions[i])]]

\* JovialLSPServer._handle_completion
handle_completion(docs, mods, uri, line, character) ==
    IF uri \notin DOMAIN mods THEN [isIncomplete |-> FALSE, items |-> <<>>]
    ELSE [isIncomplete |-> FALSE,
          items |-> CompletionItems(mods[uri],
                        get_completions_at_position(QueryParser(docs, mods, uri),
                                                    line, character))]

\* JovialLSPServer._handle_hover
handle_hover(docs, mods, uri, line, character) ==
    IF uri \notin DOMAIN mods THEN None
    ELSE get_hover_info(QueryParser(docs, mods, uri), line, character)

\* _handle_definition from `if not hover_info` on
DefinitionOf(uri, hover_info) ==
    IF hover_info = None \/ hover_info[1].type = "keyword" THEN None
    ELSE Some([uri |-> uri,
               line |-> IF hover_info[1].type = "item" THEN hover_info[1].line
                        ELSE hover_info[1].line_start,
               character_start |-> 0, character_end |-> 100])

\* JovialLSPServer._handle_definition
handle_definition(docs, mods, uri, line, character) ==
    IF uri \notin DOMAIN mods THEN None
    ELSE DefinitionOf(uri, get_hover_info(QueryParser(docs, mods, uri), line, character))

RECURSIVE MatchesFrom(_, _, _)
\* pattern.finditer(line) for \b<name>\b under re.IGNORECASE, from position k
\* on: the positions of the matches, line and name being upper-cased
MatchesFrom(line, name, k) ==
    IF k + Len(name) - 1 > Len(line) THEN <<>>
    ELSE IF MatchAt(line, k, name) /\ Boundary(line, k) /\ Boundary(line, k + Len(name))
    THEN <<k>> \o MatchesFrom(line, name, k + Len(name))
    ELSE MatchesFrom(line, name, k + 1)

\* the locations of the matches at the positions starts of line i (0-based)
LineLocations(uri, i, starts, length) ==
    [n \in 1..Len(starts) |->
        [uri |-> uri, line |-> i, character_start |-> starts[n] - 1,
         character_end |-> starts[n] - 1 + length]]

\* the loop over enumerate(lines) cut down to the first line
LocationsOfFirstLine(uri, lines, name, i) ==
    LineLocations(uri, 0, MatchesFrom(Upper(lines[1]), name, 1), Len(name))

RECURSIVE LocationsFrom(_, _, _, _)
\* the loop over enumerate(lines), from line i (0-based) on
LocationsFrom(uri, lines, name, i) ==
    IF i >= Len(lines) THEN <<>>
    ELSE LineLocations(uri, i, MatchesFrom(Upper(lines[i + 1]), name, 1), Len(name))
         \o LocationsFrom(uri, lines, name, i + 1)

\* _handle_references from `if not hover_info` on
ReferencesOf(uri, lines, hover_info) ==
    IF hover_info = None THEN <<>>
    ELSE IF hover_info[1].name = "" THEN <<>>
    ELSE LocationsFrom(uri, lines, Upper(hover_info[1].name), 0)

\* JovialLSPServer._handle_references
handle_references(docs, mods, uri, line, character) ==
    IF uri \notin DOMAIN mods THEN <<>>
    ELSE ReferencesOf(uri, Split(docs[uri], "\n"),
                      get_hover_info(QueryParser(docs, mods, uri), line, character))

\* a DocumentSymbol of the response: name, kind and range
Symbol(uri, name, kind, line_start, character_start, line_end, character_end) ==
    [name |-> name, kind |-> kind, uri |-> uri,
     line_start |-> line_start, character_start |-> character_start,
     line_end |-> line_end, character_end |-> character_end]

\* `table.line_end or table.line_start`
OrElse(line_end, line_start) == IF line_end # 0 THEN line_end ELSE line_start

\* the symbols of a model: items under unscoped keys, tables, procs, defines
DocumentSymbols(uri, model) ==
    { Symbol(uri, name, IF model.items[name].is_constant THEN 14 ELSE 13,
             model.items[name].line_number, model.items[name].column_start,
             model.items[name].line_number, model.items[name].column_end) :
          name \in { n \in DOMAIN model.items : ~Contains(n, ".") } }
    \cup { Symbol(uri, name, 5, model.tables[name].line_start, 0,
                  OrElse(model.tables[name].line_end, model.tables[name].line_start), 100) :
              name \in DOMAIN model.tables }
    \cup { Symbol(uri, name, 6, model.procs[name].line_start, 0,
                  OrElse(model.procs[name].line_end, model.procs[name].line_start), 100) :
              name \in DOMAIN model.procs }
    \cup { Symbol(uri, name, 14, model.defines[name].line_number, 0,
                  model.defines[name].line_number, 100) :
              name \in DOMAIN model.defines }

\* JovialLSPServer._handle_document_symbol; the symbols are given as a set
handle_document_symbol(mods, uri) ==
    IF uri \notin DOMAIN mods THEN {} ELSE DocumentSymbols(uri, mods[uri])

(***************************************************************************)
(* State                                                                   *)
(***************************************************************************)
VARIABLES
    parser,            \* the JovialSemanticParser instance
    statement_buffer,  \* the local statement_buffer of parse
    pc,                \* "idle", "parsing" (inside parse), "done" (parse returned), "raised"
    fam,               \* the family of the text being parsed
    blocks,            \* bookkeeping about the text read so far
    left_behind,       \* what the previous call of parse left on the instance
    documents,         \* JovialLSPServer.documents
    models,            \* JovialLSPServer.models
    reply,             \* the response of handle_request not yet written out, with its request
    returned           \* the model objects parse returned to a caller that keeps them

vars == <<parser, statement_buffer, pc, fam, blocks, left_behind, documents, models, reply,
          returned>>

server_vars == <<documents, models, reply>>

parser_vars == <<parser, statement_buffer, pc, fam, blocks, left_behind>>

Init ==
    /\ parser = NewParser
    /\ statement_buffer = ""
    /\ pc = "idle"
    /\ fam = 1
    /\ blocks = NewBlocks
    /\ left_behind = None
    /\ documents = EmptyDict
    /\ models = EmptyDict
    /\ reply = None
    /\ returned = <<>>

(***************************************************************************)
(* parse, one physical line at a time.  parser.lines holds the lines read  *)
(* so far: the loop never looks ahead, so a text is supplied line by line  *)
(* and parse returns after any line.                                       *)
(***************************************************************************)
\* the 0-based number of the line about to be read
LineNo == Len(parser.lines)

\* the parser once the loop has taken the line
Entered(line) == [parser EXCEPT !.lines = Append(@, line), !.current_line_num = LineNo]

\* statement_buffer.strip() after the line is appended to the buffer
Statement(line) == Strip(Accumulated(statement_buffer, LineOf(line).stripped))

\* the loop of parse has a further line to take
CanRead(line) == pc = "parsing" /\ line \in Pool(fam) /\ LineNo < MaxLen(fam)

\* the line completes a statement
Completing(line) ==
    /\ CanRead(line)
    /\ LineOf(line).stripped # ""
    /\ LineOf(line).completes

\* what a call of parse that has ended leaves on the instance: whether a table
\* or proc body is still entered, and whether it returned with a statement
\* still unterminated
Leftover ==
    [open    |-> parser.in_table_body \/ parser.in_proc_body,
     pending |-> pc = "done" /\ statement_buffer # ""]

\* parse is called on the parser instance, fresh or used before
ParseCall ==
    /\ pc \in {"idle", "done", "raised"}
    /\ \E f \in 1..Len(Families) : fam' = f
    /\ parser' = parse_reset(parser)
    /\ statement_buffer' = ""
    /\ pc' = "parsing"
    /\ blocks' = NewBlocks
    /\ left_behind' = IF pc = "idle" THEN None ELSE Some(Leftover)
    /\ UNCHANGED <<server_vars, returned>>

\* `if not stripped: continue`
SkipLine ==
    \E line \in Pool(fam) :
        /\ CanRead(line)
        /\ LineOf(line).stripped = ""
        /\ parser' = Entered(line)
        /\ UNCHANGED <<statement_buffer, pc, fam, blocks, left_behind, server_vars, returned>>

\* the line does not complete a statement: it stays in the buffer
Accumulate ==
    \E line \in Pool(fam) :
        /\ CanRead(line)
        /\ LineOf(line).stripped # ""
        /\ ~LineOf(line).completes
        /\ parser' = Entered(line)
        /\ statement_buffer' = Accumulated(statement_buffer, LineOf(line).stripped)
        /\ UNCHANGED <<pc, fam, blocks, left_behind, server_vars, returned>>

\* the statement recognised as t takes the given branch without raising, and
\* its handler leaves the parser as after
Handled(t, branch, after) ==
    /\ t.branch = branch
    /\ ~statement_raises(t)
    /\ parser' = after
    /\ statement_buffer' = ""
    /\ UNCHANGED <<pc, fam, left_behind, server_vars, returned>>

StmtStart ==
    \E line \in Pool(fam) : Completing(line) /\ \E t \in {Text(Statement(line))} :
        /\ Handled(t, "START", parse_start(Entered(line), t.m, LineNo))
        /\ UNCHANGED blocks

StmtTerm ==
    \E line \in Pool(fam) : Completing(line) /\ \E t \in {Text(Statement(line))} :
        /\ Handled(t, "TERM", Entered(line))
        /\ UNCHANGED blocks

StmtCompool ==
    \E line \in Pool(fam) : Completing(line) /\ \E t \in {Text(Statement(line))} :
        /\ Handled(t, "COMPOOL", parse_compool_start(Entered(line), t.m, LineNo))
        /\ UNCHANGED blocks

StmtBegin ==
    \E line \in Pool(fam) : Completing(line) /\ \E t \in {Text(Statement(line))} :
        /\ Handled(t, "BEGIN", handle_begin(Entered(line), LineNo))
        /\ blocks' = BlocksBegin(blocks)

StmtEnd ==
    \E line \in Pool(fam) : Completing(line) /\ \E t \in {Text(Statement(line))} :
        /\ Handled(t, "END", handle_end(Entered(line), LineNo))
        /\ blocks' = BlocksEnd(blocks, LineNo)

StmtItem ==
    \E line \in Pool(fam) : Completing(line) /\ \E t \in {Text(Statement(line))} :
        /\ Handled(t, "ITEM", parse_item_declaration(Entered(line), t.m, LineNo))
        /\ blocks' = BlocksItem(blocks, parser', Statement(line), t.m, LineNo)

StmtTable ==
    \E line \in Pool(fam) : Completing(line) /\ \E t \in {Text(Statement(line))} :
        /\ Handled(t, "TABLE", parse_table_declaration(Entered(line), t.m, LineNo))
        /\ blocks' = BlocksHeader(blocks, "table", t.m, LineNo)

\* int() raises ValueError in _parse_table_declaration: parse ends without a model
TableRaises ==
    \E line \in Pool(fam) : Completing(line) /\ \E t \in {Text(Statement(line))} :
        /\ statement_raises(t)
        /\ parser' = Entered(line)
        /\ statement_buffer' = Accumulated(statement_buffer, LineOf(line).stripped)
        /\ pc' = "raised"
        /\ UNCHANGED <<fam, blocks, left_behind, server_vars, returned>>

StmtProc ==
    \E line \in Pool(fam) : Completing(line) /\ \E t \in {Text(Statement(line))} :
        /\ Handled(t, "PROC", parse_proc_declaration(Entered(line), t.m, LineNo))
        /\ blocks' = BlocksHeader(blocks, "proc", t.m, LineNo)

StmtType ==
    \E line \in Pool(fam) : Completing(line) /\ \E t \in {Text(Statement(line))} :
        /\ Handled(t, "TYPE", parse_type_declaration(Entered(line), t.m, LineNo))
        /\ UNCHANGED blocks

StmtDefine ==
    \E line \in Pool(fam) : Completing(line) /\ \E t \in {Text(Statement(line))} :
        /\ Handled(t, "DEFINE", parse_define(Entered(line), t.m, LineNo))
        /\ UNCHANGED blocks

StmtDef ==
    \E line \in Pool(fam) : Completing(line) /\ \E t \in {Text(Statement(line))} :
        /\ Handled(t, "DEF", parse_def_reference(Entered(line), t.m, LineNo))
        /\ UNCHANGED blocks

StmtRef ==
    \E line \in Pool(fam) : Completing(line) /\ \E t \in {Text(Statement(line))} :
        /\ Handled(t, "REF", parse_ref_reference(Entered(line), t.m, LineNo))
        /\ UNCHANGED blocks

\* no branch of _parse_statement takes the statement
StmtIgnored ==
    \E line \in Pool(fam) : Completing(line) /\ \E t \in {Text(Statement(line))} :
        /\ Handled(t, "NONE", Entered(line))
        /\ UNCHANGED blocks

\* `return self.model`, the text having at least one line
Return ==
    /\ pc = "parsing"
    /\ LineNo >= 1
    /\ pc' = "done"
    /\ UNCHANGED <<parser, statement_buffer, fam, blocks, left_behind, server_vars, returned>>

Next ==
    \/ ParseCall
    \/ SkipLine
    \/ Accumulate
    \/ StmtStart
    \/ StmtTerm
    \/ StmtCompool
    \/ StmtBegin
    \/ StmtEnd
    \/ StmtItem
    \/ StmtTable
    \/ TableRaises
    \/ StmtProc
    \/ StmtType
    \/ StmtDefine
    \/ StmtDef
    \/ StmtRef
    \/ StmtIgnored
    \/ Return

Spec == Init /\ [][Next]_vars

(***************************************************************************)
(* The server's loop: main reads one message, handle_request handles it,   *)
(* and the response, if there is one, is written out before the next       *)
(* message is read.                                                        *)
(***************************************************************************)
\* JovialLSPServer._handle_did_open
DidOpen ==
    \E uri \in Uris, text \in DocTexts :
        /\ reply = None
        /\ documents' = Put(documents, uri, text)
        /\ models' = parse_document(documents', models, uri)
        /\ UNCHANGED <<reply, parser_vars, returned>>

\* JovialLSPServer._handle_did_change
DidChange ==
    \E uri \in Uris, changes \in ChangeLists :
        /\ reply = None
        /\ IF changes # <<>>
           THEN /\ documents' = Put(documents, uri, LastText(changes))
                /\ models' = parse_document(documents', models, uri)
           ELSE UNCHANGED <<documents, models>>
        /\ UNCHANGED <<reply, parser_vars, returned>>

\* _handle_did_close deleting the text and keeping the model
DidCloseTextOnly ==
    \E uri \in Uris :
        /\ reply = None
        /\ documents' = IF uri \in DOMAIN documents THEN Drop(documents, uri) ELSE documents
        /\ UNCHANGED <<models, reply, parser_vars, returned>>

\* JovialLSPServer._handle_did_close
DidClose ==
    \E uri \in Uris :
        /\ reply = None
        /\ documents' = IF uri \in DOMAIN documents THEN Drop(documents, uri) ELSE documents
        /\ models' = IF uri \in DOMAIN models THEN Drop(models, uri) ELSE models
        /\ UNCHANGED <<reply, parser_vars, returned>>

\* handle_request returns the response of a query handler
Answered(method, uri, line, character, result) ==
    /\ reply' = Some([method |-> method, uri |-> uri, line |-> line, character |-> character,
                      result |-> result])
    /\ UNCHANGED <<documents, models, parser_vars, returned>>

\* textDocument/completion
Completion ==
    \E uri \in Uris, line \in Lines, character \in Columns :
        /\ reply = None
        /\ Answered("completion", uri, line, character,
                    handle_completion(documents, models, uri, line, character))

\* textDocument/hover
Hover ==
    \E uri \in Uris, line \in Lines, character \in Columns :
        /\ reply = None
        /\ Answered("hover", uri, line, character,
                    handle_hover(documents, models, uri, line, character))

\* textDocument/definition
Definition ==
    \E uri \in Uris, line \in Lines, character \in Columns :
        /\ reply = None
        /\ Answered("definition", uri, line, character,
                    handle_definition(documents, models, uri, line, character))

\* textDocument/references
References ==
    \E uri \in Uris, line \in Lines, character \in Columns :
        /\ reply = None
        /\ Answered("references", uri, line, character,
                    handle_references(documents, models, uri, line, character))

\* textDocument/documentSymbol
DocumentSymbol ==
    \E uri \in Uris :
        /\ reply = None
        /\ reply' = Some([method |-> "documentSymbol", uri |-> uri,
                          result |-> handle_document_symbol(models, uri)])
        /\ UNCHANGED <<documents, models, parser_vars, returned>>

\* the ids a request carries; a notification carries none
RequestIds == {0, 1}

\* the last branch of handle_request: the response to a method it does not
\* know, None when "if request_id" finds nothing or a falsy id
method_not_found(request_id) ==
    IF request_id # None /\ request_id[1] # 0
    THEN Some([id |-> request_id[1], code |-> -32601])
    ELSE None

\* a message with a method handle_request has no branch for
UnknownMethod ==
    \E request_id \in {None} \cup { Some(i) : i \in RequestIds } :
        /\ reply = None
        /\ reply' = Some([method |-> "unknown", id |-> request_id,
                          response |-> method_not_found(request_id)])
        /\ UNCHANGED <<documents, models, parser_vars, returned>>

\* main writes the response, if there is one, to stdout
Send ==
    /\ reply # None
    /\ reply' = None
    /\ UNCHANGED <<documents, models, parser_vars, returned>>

ServerNext ==
    \/ DidOpen
    \/ DidChange
    \/ DidClose
    \/ Completion
    \/ Hover
    \/ Definition
    \/ References
    \/ DocumentSymbol
    \/ UnknownMethod
    \/ Send

SpecServer == Init /\ [][ServerNext]_vars

(***************************************************************************)
(* One parser instance used by a caller that calls parse several times and *)
(* keeps every model it was given.  A model is an object: `returned` holds *)
(* the objects parse returned, oldest first, each with the text it was     *)
(* built from and its content now.                                         *)
(***************************************************************************)
MaxHeld == 2

\* parse fills the object of the call before: the model the caller holds from
\* that call changes with it
same_model(objects, text, model) ==
    Append([k \in 1..Len(objects) |->
               IF k = Len(objects) THEN [objects[k] EXCEPT !.model = model] ELSE objects[k]],
           [text |-> text, model |-> model])

\* self.model = JovialSemanticModel(): parse builds the model in a new object,
\* and the objects returned before stay as they are
new_model(objects, text, model) == Append(objects, [text |-> text, model |-> model])

\* parse(text) on the instance; the caller keeps the model returned, and gets
\* none when parse raises
InstanceParse ==
    \E text \in DocTexts :
        /\ reply = None
        /\ Len(returned) < MaxHeld
        /\ \E st \in {parse(parser, Split(text, "\n"))} :
               /\ parser' = st.p
               /\ pc' = IF st.raised THEN "raised" ELSE "done"
               /\ returned' = IF st.raised THEN returned
                              ELSE new_model(returned, text, st.p.model)
        /\ UNCHANGED <<statement_buffer, fam, blocks, left_behind, server_vars>>

\* the query result the caller is given
Queried(method, line, column, result) ==
    /\ reply' = Some([method |-> method, line |-> line, character |-> column,
                      result |-> result])
    /\ UNCHANGED <<documents, models, parser_vars, returned>>

\* get_completions_at_position on the instance
InstanceCompletions ==
    \E line \in Lines, column \in Columns :
        /\ reply = None
        /\ Queried("completion", line, column, get_completions_at_position(parser, line, column))

\* get_hover_info on the instance
InstanceHover ==
    \E line \in Lines, column \in Columns :
        /\ reply = None
        /\ Queried("hover", line, column, get_hover_info(parser, line, column))

\* the caller is done with the result
InstanceResult ==
    /\ reply # None
    /\ reply' = None
    /\ UNCHANGED <<documents, models, parser_vars, returned>>

InstanceNext ==
    \/ InstanceParse
    \/ InstanceCompletions
    \/ InstanceHover
    \/ InstanceResult

SpecInstance == Init /\ [][InstanceNext]_vars

(***************************************************************************)
(* Properties                                                              *)
(***************************************************************************)
\* the word of an ITEM statement that stands where the type is written: the
\* word after the name and the attribute words
TypeWordAt(u, runs) == SubSeq(u, runs[Len(runs)], SkipIdent(u, runs[Len(runs)]) - 1)

TypeWord(statement) ==
    IF HeadName(Trimmed(statement), "ITEM") = <<>> THEN ""
    ELSE TypeWordAt(Upper(Trimmed(statement)),
                    AttrRuns(Upper(Trimmed(statement)),
                             SkipSpaces(Trimmed(statement),
                                        HeadName(Trimmed(statement), "ITEM")[2])))

\* the line_end values of the containers of the model of the given kind and
\* name that were declared on line line_start
LineEnds(kind, name, line_start) ==
    IF kind = "table"
    THEN { parser.model.tables[t].line_end :
             t \in { t \in DOMAIN parser.model.tables :
                       t = name /\ parser.model.tables[t].line_start = line_start } }
    ELSE { parser.model.procs[q].line_end :
             q \in { q \in DOMAIN parser.model.procs :
                       q = name /\ parser.model.procs[q].line_start = line_start } }

\* C1: an ITEM statement whose type word is STATUS is recorded, with type
\* STATUS and with the names of its V(name) tokens, in order of appearance, as
\* status_values
C1_StatusItemRecorded ==
    (blocks.last_item # None /\ TypeWord(blocks.last_item[1].statement) = "STATUS") =>
        /\ blocks.last_item[1].recorded
        /\ (parser.model.items[blocks.last_item[1].name].line_number = blocks.last_item[1].line
               => /\ parser.model.items[blocks.last_item[1].name].type = "STATUS"
                  /\ parser.model.items[blocks.last_item[1].name].status_values
                       = StatusValues(blocks.last_item[1].statement))

\* C2: after parse, every item whose parent_table names a table T is the entry
\* of that name in model.tables[T].entries, and T exists
C2_ParentTableHoldsItem ==
    pc = "done" =>
        \A n \in DOMAIN parser.model.items :
            parser.model.items[n].parent_table # None =>
                /\ parser.model.items[n].parent_table[1] \in DOMAIN parser.model.tables
                /\ parser.model.items[n].name \in
                       DOMAIN parser.model.tables[parser.model.items[n].parent_table[1]].entries
                /\ parser.model.tables[parser.model.items[n].parent_table[1]]
                       .entries[parser.model.items[n].name] = parser.model.items[n]

\* C3 as stated: after parse, every entry of every table's entries exists in
\* the top-level items under its own name, and that top-level item has
\* parent_table equal to the table's name
C3_EntriesAreTopLevelItems ==
    pc = "done" =>
        \A T \in DOMAIN parser.model.tables :
            \A n \in DOMAIN parser.model.tables[T].entries :
                /\ parser.model.tables[T].entries[n].name \in DOMAIN parser.model.items
                /\ parser.model.items[parser.model.tables[T].entries[n].name].parent_table
                       = Some(T)

\* C3 amended: after parse, every entry e of every table T's entries has
\* parent_table equal to T's name and a top-level item stands under e's name;
\* that top-level item is e itself unless a later line declared the name again
C3_EntriesAreTopLevelUnlessRedeclared ==
    pc = "done" =>
        \A T \in DOMAIN parser.model.tables :
            \A n \in DOMAIN parser.model.tables[T].entries :
                /\ parser.model.tables[T].entries[n].parent_table = Some(T)
                /\ parser.model.tables[T].entries[n].name \in DOMAIN parser.model.items
                /\ \/ parser.model.items[parser.model.tables[T].entries[n].name]
                          = parser.model.tables[T].entries[n]
                   \/ parser.model.items[parser.model.tables[T].entries[n].name].line_number
                          > parser.model.tables[T].entries[n].line_number

\* parse has returned a model in which a table holds an entry whose name was
\* declared again later: the top-level item is the later declaration
C3_RedeclaredEntry ==
    /\ pc = "done"
    /\ \E T \in DOMAIN parser.model.tables :
           \E n \in DOMAIN parser.model.tables[T].entries :
               /\ parser.model.tables[T].entries[n].name \in DOMAIN parser.model.items
               /\ parser.model.items[parser.model.tables[T].entries[n].name]
                      # parser.model.tables[T].entries[n]

\* C4: parse never raises, whatever the text
C4_ParseNeverRaises == pc # "raised"

\* C5: for every URI with a stored model, the model is the one parse yields on
\* the stored text of that URI
C5_ModelIsOfStoredText ==
    \A uri \in DOMAIN models :
        /\ uri \in DOMAIN documents
        /\ ~ParseText(documents[uri]).raised
        /\ models[uri] = ParseText(documents[uri]).p.model

\* C6: with one container body entered inside another, an ITEM goes into the
\* container entered last and not yet closed, and into no other
C6_ItemIntoInnermost ==
    (/\ blocks.last_item # None
     /\ blocks.last_item[1].recorded
     /\ blocks.last_item[1].depth >= 2
     /\ ~blocks.last_item[1].header)
        => blocks.last_item[1].into = {blocks.last_item[1].innermost[1]}

\* C7: a container whose BEGIN is not yet matched by an END has no line_end,
\* and a container whose BEGIN was matched has the line of that END as line_end
C7_LineEndAtMatchingEnd ==
    /\ \A k \in 1..Len(blocks.open) :
           blocks.open[k].kind # "block" =>
               LineEnds(blocks.open[k].kind, blocks.open[k].name, blocks.open[k].line)
                   \subseteq {0}
    /\ \A c \in DOMAIN blocks.closed :
           LineEnds(c[1], c[2], blocks.closed[c].line_start)
               \subseteq {blocks.closed[c].line_end}

\* C8: looking a declared name up by its upper-cased form finds the same
\* entity as looking it up by the casing of the source
C8_LookupFoldsCase ==
    /\ \A n \in DOMAIN parser.model.items :
           get_item(parser.model, Upper(n)) = get_item(parser.model, n)
    /\ \A n \in DOMAIN parser.model.tables :
           get_table(parser.model, Upper(n)) = get_table(parser.model, n)
    /\ \A n \in DOMAIN parser.model.procs :
           get_proc(parser.model, Upper(n)) = get_proc(parser.model, n)
    /\ \A n \in DOMAIN parser.model.defines :
           /\ Upper(n) \in DOMAIN parser.model.defines
           /\ parser.model.defines[Upper(n)] = parser.model.defines[n]

\* C9: the model parse returns is the model a fresh parser yields on the same
\* text, whatever the instance parsed before
C9_ParseDependsOnTextOnly ==
    pc = "done" =>
        /\ ~parse(NewParser, parser.lines).raised
        /\ parser.model = parse(NewParser, parser.lines).p.model

\* parse has returned items on an instance whose previous call left a body
\* entered and a statement unterminated
C9_ReusedParser ==
    /\ pc = "done"
    /\ left_behind = Some([open |-> TRUE, pending |-> TRUE])
    /\ DOMAIN parser.model.items # {}

\* C10: no two names get_all_symbols returns are equal when compared
\* case-insensitively, and every declared name is represented
C10_SymbolsFolded ==
    /\ \A a \in get_all_symbols(parser.model) :
           \A b \in get_all_symbols(parser.model) : Upper(a) = Upper(b) => a = b
    /\ \A n \in DOMAIN parser.model.items \cup DOMAIN parser.model.tables
                 \cup DOMAIN parser.model.procs \cup DOMAIN parser.model.defines :
           \E a \in get_all_symbols(parser.model) : Upper(a) = Upper(n)

(***************************************************************************)
(* C11: for every line read, what parse keeps of the line is the line up   *)
(* to its first double quote, stripped, whether or not an apostrophe       *)
(* stands before that quote.                                               *)
(***************************************************************************)
\* the line up to its first double quote
BeforeComment(line) ==
    IF Contains(line, "\"") THEN SubSeq(line, 1, Find(line, "\"")) ELSE line

C11_CommentFromFirstQuote ==
    \A i \in 1..Len(parser.lines) :
        LineOf(parser.lines[i]).stripped = Strip(BeforeComment(parser.lines[i]))


(***************************************************************************)
(* C12: when the lines read are one declaration split over several lines   *)
(* (the last line ends in a semicolon, no line before it ends a statement, *)
(* blank and comment-only lines may stand in between), the model holds     *)
(* exactly one entry, recorded at the index of the last line, and the      *)
(* statement buffer is empty.                                              *)
(***************************************************************************)
\* the lines without their comments, stripped
CodeParts(lines) == [i \in 1..Len(lines) |-> Strip(BeforeComment(lines[i]))]

RECURSIVE JoinCode(_)
\* the parts that are not blank, joined by one space
JoinCode(parts) ==
    IF parts = <<>> THEN ""
    ELSE IF Head(parts) = "" THEN JoinCode(Tail(parts))
    ELSE IF JoinCode(Tail(parts)) = "" THEN Head(parts)
    ELSE Head(parts) \o " " \o JoinCode(Tail(parts))

\* the collection a declaration statement adds to
DeclKind(branch) ==
    CASE branch = "ITEM" -> "items" [] branch = "TABLE" -> "tables" [] branch = "PROC" -> "procs"
      [] branch = "TYPE" -> "types" [] branch = "DEFINE" -> "defines" [] OTHER -> ""

\* the statement is an ITEM, TABLE, PROC, TYPE or DEFINE declaration
IsDeclaration(statement) ==
    /\ DeclKind(Text(statement).branch) # ""
    /\ Text(statement).m.ok

\* the lines are one declaration split over two or more lines
SplitDeclaration(lines) ==
    /\ Len(lines) >= 2
    /\ EndsWith(CodeParts(lines)[Len(lines)], ";")
    /\ \A i \in 1..(Len(lines) - 1) : ~Completes(CodeParts(lines)[i])
    /\ \E i \in 1..(Len(lines) - 1) : CodeParts(lines)[i] # ""
    /\ IsDeclaration(JoinCode(CodeParts(lines)))

\* every entry of the model as <<collection, name, recorded line>>
Entries(m) ==
    { <<"items", n, m.items[n].line_number>> : n \in DOMAIN m.items }
    \cup { <<"tables", n, m.tables[n].line_start>> : n \in DOMAIN m.tables }
    \cup { <<"procs", n, m.procs[n].line_start>> : n \in DOMAIN m.procs }
    \cup { <<"types", n, m.types[n].line>> : n \in DOMAIN m.types }
    \cup { <<"defines", n, m.defines[n].line_number>> : n \in DOMAIN m.defines }

C12_SplitStatementOnce ==
    SplitDeclaration(parser.lines) =>
        /\ statement_buffer = ""
        /\ Entries(parser.model) =
               { <<DeclKind(Text(JoinCode(CodeParts(parser.lines))).branch),
                   Text(JoinCode(CodeParts(parser.lines))).m.name,
                   Len(parser.lines) - 1>> }

(***************************************************************************)
(* C13: reading a line that is a whole statement whose leading word is     *)
(* none of the twelve statement keywords leaves the model and the parser   *)
(* context as they were, also when the word begins with a keyword.         *)
(***************************************************************************)
StatementKeywords ==
    {"START", "TERM", "COMPOOL", "BEGIN", "END", "ITEM", "TABLE", "PROC", "TYPE", "DEFINE",
     "DEF", "REF"}

RECURSIVE SkipWord(_, _)
\* the position after the run of characters that are not whitespace
SkipWord(s, k) == IF k <= Len(s) /\ ~IsSpace(Ch(s, k)) THEN SkipWord(s, k + 1) ELSE k

\* the first whitespace-delimited token of the statement
LeadingWord(statement) == SubSeq(statement, 1, SkipWord(statement, 1) - 1)

\* the context the statement handlers keep on the parser
Context(p) ==
    <<p.in_table_body, p.current_table, p.in_proc_body, p.current_proc, p.in_compool>>

\* the step reads one line, a statement of its own, led by no statement keyword
ReadsOtherStatement ==
    /\ statement_buffer = ""
    /\ Len(parser'.lines) = Len(parser.lines) + 1
    /\ Completes(Strip(BeforeComment(parser'.lines[Len(parser'.lines)])))
    /\ Upper(LeadingWord(Strip(BeforeComment(parser'.lines[Len(parser'.lines)]))))
           \notin StatementKeywords

C13_OtherStatementChangesNothing ==
    [][ReadsOtherStatement =>
           parser'.model = parser.model /\ Context(parser') = Context(parser)]_vars

(***************************************************************************)
(* C14: reading a line that is a truncated declaration, a declaration      *)
(* keyword ITEM, TABLE, TYPE or DEFINE and a name and nothing more, adds   *)
(* no entry to any collection of the model.                                *)
(***************************************************************************)
\* w is a name: a letter followed by letters, digits and apostrophes
IsName(w) == w # "" /\ IsAlpha(Ch(w, 1)) /\ SkipIdent(w, 1) = Len(w) + 1

\* the statement is `keyword name;`
Truncated(statement) ==
    /\ Upper(LeadingWord(statement)) \in {"ITEM", "TABLE", "TYPE", "DEFINE"}
    /\ EndsWith(statement, ";")
    /\ SkipSpaces(statement, SkipWord(statement, 1)) > SkipWord(statement, 1)
    /\ IsName(SubSeq(statement, SkipSpaces(statement, SkipWord(statement, 1)),
                     Len(statement) - 1))

\* the step reads one line, a truncated declaration of its own
ReadsTruncated ==
    /\ statement_buffer = ""
    /\ Len(parser'.lines) = Len(parser.lines) + 1
    /\ Truncated(Strip(BeforeComment(parser'.lines[Len(parser'.lines)])))

C14_TruncatedAddsNothing ==
    [][ReadsTruncated => Entries(parser'.model) = Entries(parser.model)]_vars

(***************************************************************************)
(* C15: once a line that is a PROC statement is read, the proc is recorded *)
(* with the parameters of its list: none for `()` or no list; with a       *)
(* colon, the names before it with mode IN then the names after it with    *)
(* mode OUT; without a colon, every name with mode INOUT; always in source *)
(* order.                                                                  *)
(***************************************************************************)
\* the text between the first parentheses of the statement, "" when it has none
ListText(statement) ==
    IF Contains(statement, "(") /\ FindFrom(statement, ")", FindFrom(statement, "(", 1)) # 0
    THEN SubSeq(statement, FindFrom(statement, "(", 1) + 1,
                FindFrom(statement, ")", FindFrom(statement, "(", 1)) - 1)
    ELSE ""

\* the names of a comma-separated list, in order
Names(list) ==
    SelectSeq([k \in 1..Len(Split(list, ",")) |-> Strip(Split(list, ",")[k])],
              LAMBDA n : n # "")

Moded(names, mode) == [k \in 1..Len(names) |-> <<names[k], mode>>]

\* the parameters the statement declares; a list has at most one colon
DeclaredParameters(list) ==
    IF Contains(list, ":")
    THEN Moded(Names(SubSeq(list, 1, FindFrom(list, ":", 1) - 1)), "IN")
         \o Moded(Names(From(list, FindFrom(list, ":", 1) + 1)), "OUT")
    ELSE Moded(Names(list), "INOUT")

\* the statement is a PROC header whose list has at most one colon
ProcStatement(statement) ==
    /\ Upper(LeadingWord(statement)) = "PROC"
    /\ EndsWith(statement, ";")
    /\ Text(statement).m.ok
    /\ Len(Split(ListText(statement), ":")) <= 2

\* the last line read is a statement of its own for the parser: every line
\* before it is blank or ends a statement, as parse sees the lines
OwnStatement(lines) ==
    /\ Len(lines) >= 1
    /\ \A i \in 1..(Len(lines) - 1) :
           LineOf(lines[i]).stripped = "" \/ LineOf(lines[i]).completes

\* the statement parse reads on the last line
LastStatement == LineOf(parser.lines[Len(parser.lines)]).stripped

\* the last line read is a PROC statement of its own
ProcRead == OwnStatement(parser.lines) /\ ProcStatement(LastStatement)

IsInteger(s) == IsDigits(s) \/ (Len(s) >= 2 /\ Ch(s, 1) = "-" /\ IsDigits(Tail(s)))

\* the value of a bound as written
DeclaredBound(s) ==
    IF ~IsInteger(Strip(s)) THEN 0
    ELSE IF Ch(Strip(s), 1) = "-" THEN 0 - DecimalValue(Tail(Strip(s)))
    ELSE DecimalValue(Strip(s))

\* the pair of one element of the dimension list
DeclaredDimension(element) ==
    IF Contains(element, ":")
    THEN <<DeclaredBound(SubSeq(element, 1, FindFrom(element, ":", 1) - 1)),
           DeclaredBound(From(element, FindFrom(element, ":", 1) + 1))>>
    ELSE <<1, DeclaredBound(element)>>

DeclaredDimensions(list) ==
    [d \in 1..Len(Split(list, ",")) |-> DeclaredDimension(Split(list, ",")[d])]

\* the last line read is a TABLE statement of its own
TableRead ==
    /\ OwnStatement(parser.lines)
    /\ Upper(LeadingWord(LastStatement)) = "TABLE"
    /\ EndsWith(LastStatement, ";")
    /\ Text(LastStatement).m.ok

C16_TableDimensions ==
    (TableRead /\ pc # "raised") =>
        /\ Text(LastStatement).m.name \in DOMAIN parser.model.tables
        /\ parser.model.tables[Text(LastStatement).m.name].dimensions
               = DeclaredDimensions(ListText(LastStatement))

(***************************************************************************)
(* C17: a hover response on a word of the document resolves the word, as a *)
(* case-insensitive name, in the order item, table, proc, keyword: the     *)
(* payload is the item's when the name is declared as an item, else the    *)
(* table's when it is declared as a table, else the proc's, else the       *)
(* keyword's, and null when the word is none of these.                     *)
(***************************************************************************)
\* the reply answers a request of the method on a document with a model
Replied(method) ==
    /\ reply # None
    /\ reply[1].method = method
    /\ reply[1].uri \in DOMAIN models

\* the lines of the document the reply is about
ReplyLines == Split(documents[reply[1].uri], "\n")

\* the position of the request is on a line of the document
OnLine == reply[1].line >= 0 /\ reply[1].line < Len(ReplyLines)

\* the word at the position of the request, upper-cased; None when there is none
ReplyWord ==
    IF WordFrom(ReplyLines[reply[1].line + 1], 1, reply[1].character) = None THEN None
    ELSE Some(Upper(WordFrom(ReplyLines[reply[1].line + 1], 1, reply[1].character)[1]))

\* the name is one of the names, whatever the casing
DeclaredIn(names, name) == \E n \in names : Upper(n) = name

\* the kind the word resolves to
ResolvedKind(model, word) ==
    IF DeclaredIn(DOMAIN model.items, word) THEN "item"
    ELSE IF DeclaredIn(DOMAIN model.tables, word) THEN "table"
    ELSE IF DeclaredIn(DOMAIN model.procs, word) THEN "proc"
    ELSE IF word \in KEYWORDS THEN "keyword"
    ELSE "none"

C17_HoverOrder ==
    (Replied("hover") /\ OnLine /\ ReplyWord # None) =>
        IF ResolvedKind(models[reply[1].uri], ReplyWord[1]) = "none"
        THEN reply[1].result = None
        ELSE /\ reply[1].result # None
             /\ reply[1].result[1].type = ResolvedKind(models[reply[1].uri], ReplyWord[1])

(***************************************************************************)
(* C18: with Scenario B's text as the document, a references request on    *)
(* the identifier LAT returns exactly two locations.                       *)
(***************************************************************************)
\* the reply answers a references request on the word LAT of Scenario B
ReferencesToLat ==
    /\ Replied("references")
    /\ documents[reply[1].uri] = ScenarioB
    /\ OnLine
    /\ ReplyWord = Some("LAT")

C18_TwoLocations == ReferencesToLat => Len(reply[1].result) = 2

\* C18 as the code has it: the text holds the word LAT once, in its
\* declaration on line 2, and the request returns that one location
C18_OneLocation ==
    ReferencesToLat =>
        reply[1].result = <<[uri |-> reply[1].uri, line |-> 2,
                             character_start |-> 7, character_end |-> 10]>>

\* a references request on LAT was answered
C18_LatAnswered == ReferencesToLat /\ reply[1].result # <<>>

(***************************************************************************)
(* C19: the labels of a completion response on a line of the document are  *)
(* in ascending order without duplicates, and they are exactly the         *)
(* keywords that start with the upper-cased prefix and the symbols of the  *)
(* model whose upper-cased name starts with it; with an empty prefix they  *)
(* are every keyword and every symbol.                                     *)
(***************************************************************************)
RECURSIVE Tokens(_)
\* the whitespace-separated tokens of s
Tokens(s) ==
    IF SkipSpaces(s, 1) > Len(s) THEN <<>>
    ELSE <<SubSeq(s, SkipSpaces(s, 1), SkipWord(s, SkipSpaces(s, 1)) - 1)>>
         \o Tokens(From(s, SkipWord(s, SkipSpaces(s, 1))))

\* the last token of the line up to the column, upper-cased; "" when none
PrefixAt(line, column) ==
    LET tokens == Tokens(SubSeq(line, 1, IF column < Len(line) THEN column ELSE Len(line)))
    IN  IF tokens = <<>> THEN "" ELSE Upper(tokens[Len(tokens)])

\* the prefix of the request the reply answers
ReplyPrefix == PrefixAt(ReplyLines[reply[1].line + 1], reply[1].character)

\* the labels of the completion response
ReplyLabels == [i \in 1..Len(reply[1].result.items) |-> reply[1].result.items[i].label]

C19_CompletionsExact ==
    (Replied("completion") /\ OnLine) =>
        LET labels == ReplyLabels
            prefix == ReplyPrefix
            symbols == get_all_symbols(models[reply[1].uri])
        IN  /\ \A i \in 1..(Len(labels) - 1) : Before(labels[i], labels[i + 1])
            /\ { labels[i] : i \in 1..Len(labels) }
                   = { kw \in KEYWORDS : StartsWith(kw, prefix) }
                     \cup { symbol \in symbols : StartsWith(Upper(symbol), prefix) }
            /\ prefix = "" =>
                   \A name \in KEYWORDS \cup symbols :
                       \E i \in 1..Len(labels) : labels[i] = name

\* a completion response for a prefix that selects a keyword and a symbol and
\* leaves a symbol out
C19_PrefixSelects ==
    /\ Replied("completion")
    /\ OnLine
    /\ ReplyPrefix # ""
    /\ \E i \in 1..Len(ReplyLabels) : ReplyLabels[i] \in KEYWORDS
    /\ \E i \in 1..Len(ReplyLabels) : ReplyLabels[i] \notin KEYWORDS
    /\ \E symbol \in get_all_symbols(models[reply[1].uri]) :
           \A i \in 1..Len(ReplyLabels) : ReplyLabels[i] # symbol

(***************************************************************************)
(* C20: queries never fail.  For any position (a line below 0 or past the *)
(* last line, a column past the end of the line, a position that touches  *)
(* no letter, digit or apostrophe) the completion response holds a list   *)
(* of labels of keywords and symbols, the hover response holds a payload  *)
(* of one of the four kinds or null; at such a position hover and         *)
(* definition answer null and references answers the empty list.          *)
(***************************************************************************)
\* neither the character before the column nor the one at it belongs to an
\* identifier; so it is when the column is past the end of the line
NoIdentifierAt(line, column) ==
    \A k \in {column, column + 1} :
        k < 1 \/ k > Len(line) \/ ~IsIdentChar(Ch(line, k))

\* the position of the request is off the lines or on no identifier
OffIdentifiers ==
    ~OnLine \/ NoIdentifierAt(ReplyLines[reply[1].line + 1], reply[1].character)

C20_QueriesNeverFail ==
    (reply # None /\ reply[1].method # "unknown" /\ reply[1].uri \in DOMAIN models) =>
        LET result == reply[1].result
            method == reply[1].method
        IN  /\ method = "completion" =>
                   /\ DOMAIN result.items = 1..Len(result.items)
                   /\ \A i \in 1..Len(result.items) :
                          result.items[i].label
                              \in KEYWORDS \cup get_all_symbols(models[reply[1].uri])
                   /\ ~OnLine => result.items = <<>>
            /\ method = "hover" =>
                   /\ result = None
                        \/ result[1].type \in {"item", "table", "proc", "keyword"}
                   /\ OffIdentifiers => result = None
            /\ method = "definition" => (OffIdentifiers => result = None)
            /\ method = "references" => (OffIdentifiers => result = <<>>)

\* a hover, definition or references request was answered for a position
\* inside a line that touches no identifier
C20_BetweenWords ==
    /\ reply # None
    /\ reply[1].method \in {"hover", "definition", "references"}
    /\ reply[1].uri \in DOMAIN models
    /\ OnLine
    /\ reply[1].character < Len(ReplyLines[reply[1].line + 1])
    /\ OffIdentifiers

(***************************************************************************)
(* C21: a model parse returned is never changed afterwards.  Every model   *)
(* object the caller holds has the content parse gave it, the model of the *)
(* text it was built from, whatever parse calls and queries on the same    *)
(* instance came after.                                                    *)
(***************************************************************************)
C21_ReturnedModelKept ==
    \A k \in 1..Len(returned) :
        /\ ~ParseText(returned[k].text).raised
        /\ returned[k].model = ParseText(returned[k].text).p.model

\* the caller holds two different models from two calls of parse, and has
\* queried the instance after the second
C21_TwoModelsHeld ==
    /\ Len(returned) = 2
    /\ returned[1].model # returned[2].model
    /\ DOMAIN returned[1].model.items # {}
    /\ reply # None

(***************************************************************************)
(* C22: once a line that ends an ITEM statement is read and the item is    *)
(* recorded, column_start is the column of the item's name in that line,   *)
(* as written, column_end is column_start plus the length of the name, and *)
(* column_start is not negative.                                           *)
(***************************************************************************)
\* the last line read ended an ITEM statement whose item was recorded
ItemRead ==
    /\ parser.lines # <<>>
    /\ blocks.last_item # None
    /\ blocks.last_item[1].recorded
    /\ blocks.last_item[1].line = Len(parser.lines) - 1

C22_ItemColumns ==
    ItemRead =>
        LET name == blocks.last_item[1].name
            item == parser.model.items[name]
        IN  /\ item.column_start = Find(parser.lines[Len(parser.lines)], name)
            /\ item.column_end = item.column_start + Len(name)
            /\ item.column_start >= 0

(***************************************************************************)
(* C23: once a line that is a DEF statement naming an identifier is read,  *)
(* with kind ITEM, TABLE, PROC or none, the model holds an item of type    *)
(* UNKNOWN under that identifier; once a REF statement with kind PROC or   *)
(* none is read, the model holds a proc without parameters under it.       *)
(***************************************************************************)
\* the last line read is a statement of its own that takes the given branch
\* and names an identifier
ReferenceRead(branch) ==
    /\ OwnStatement(parser.lines)
    /\ EndsWith(LastStatement, ";")
    /\ Text(LastStatement).branch = branch
    /\ Text(LastStatement).m.ok

C23_StubsAdded ==
    /\ ReferenceRead("DEF") =>
           /\ Text(LastStatement).m.name \in DOMAIN parser.model.items
           /\ parser.model.items[Text(LastStatement).m.name].type = "UNKNOWN"
    /\ (ReferenceRead("REF") /\ Text(LastStatement).m.kind \in {"PROC", ""}) =>
           /\ Text(LastStatement).m.name \in DOMAIN parser.model.procs
           /\ parser.model.procs[Text(LastStatement).m.name].parameters = <<>>

(***************************************************************************)
(* C24: once a line that is a `COMPOOL name;` statement is read, the       *)
(* compools of the model hold a record for the name with the number of     *)
(* that line.                                                              *)
(***************************************************************************)
\* the last line read is a COMPOOL statement of its own that names a module
CompoolRead ==
    /\ OwnStatement(parser.lines)
    /\ EndsWith(LastStatement, ";")
    /\ Text(LastStatement).branch = "COMPOOL"
    /\ Text(LastStatement).m # None

C24_CompoolRecorded ==
    CompoolRead =>
        /\ Text(LastStatement).m[1] \in DOMAIN parser.model.compools
        /\ parser.model.compools[Text(LastStatement).m[1]].line_number
               = Len(parser.lines) - 1

(***************************************************************************)
(* C25: documents are isolated in the server.  Every step of the server    *)
(* concerns one URI: the text and the model stored under any other URI     *)
(* stay as they are, absent or present; a step that answers a query leaves *)
(* every text and every model as it is.                                    *)
(***************************************************************************)
\* the entry of the dict under the key, None when absent
Stored(dict, key) == IF key \in DOMAIN dict THEN Some(dict[key]) ELSE None

\* the step leaves the text and the model of the URI alone
Untouched(uri) ==
    /\ Stored(documents', uri) = Stored(documents, uri)
    /\ Stored(models', uri) = Stored(models, uri)

C25_DocumentsIsolated ==
    [][/\ \E a \in Uris : \A b \in Uris \ {a} : Untouched(b)
       /\ reply' # None => \A b \in Uris : Untouched(b)]_vars

\* two documents with different texts and models are open, and a query on
\* one of them was answered
C25_TwoDocuments ==
    /\ DOMAIN models = Uris
    /\ \E a, b \in Uris : documents[a] # documents[b] /\ models[a] # models[b]
    /\ reply # None

(***************************************************************************)
(* C26: after a TABLE statement the parser is in the header of the new     *)
(* table: an ITEM read before the BEGIN that follows the TABLE statement   *)
(* is not added to the entries of that table, also when the TABLE          *)
(* statement stands in the open body of another table.                     *)
(***************************************************************************)
\* the last line read ended an ITEM statement, recorded, and the header read
\* last is one of a table whose BEGIN is still to come
ItemInTableHeader ==
    /\ ItemRead
    /\ blocks.pending # None
    /\ blocks.pending[1].kind = "table"

C26_HeaderTakesNoItem ==
    ItemInTableHeader =>
        <<"table", blocks.pending[1].name>> \notin blocks.last_item[1].into

(***************************************************************************)
(* C27: a text that begins with a TABLE statement, a PROC header and a     *)
(* BEGIN.  The BEGIN enters the body of the proc only; an ITEM on the next *)
(* line goes into the local_items of the proc with no parent_table, and    *)
(* the entries of the table stay empty; an END after it closes the proc    *)
(* and sets its line_end.                                                  *)
(***************************************************************************)
\* the statement on line k (from 1) of the text read, a statement of its own
StatementOn(k) == Text(LineOf(parser.lines[k]).stripped)

\* the text read begins with a TABLE statement, a PROC header and a BEGIN
TableThenProc ==
    /\ Len(parser.lines) >= 3
    /\ \A k \in 1..3 : LineOf(parser.lines[k]).completes
    /\ StatementOn(1).branch = "TABLE" /\ StatementOn(1).m.ok
    /\ StatementOn(2).branch = "PROC" /\ StatementOn(2).m.ok
    /\ StatementOn(3).branch = "BEGIN"

\* ... and goes on with an ITEM statement
TableThenProcItem ==
    /\ TableThenProc
    /\ Len(parser.lines) >= 4
    /\ LineOf(parser.lines[4]).completes
    /\ StatementOn(4).branch = "ITEM" /\ StatementOn(4).m.ok

C27_ProcBodyOnly ==
    LET table == StatementOn(1).m.name
        proc == StatementOn(2).m.name
        item == StatementOn(4).m.name
    IN  /\ (TableThenProc /\ Len(parser.lines) = 3) =>
               parser.in_proc_body /\ ~parser.in_table_body
        /\ (TableThenProcItem /\ Len(parser.lines) = 4) =>
               /\ item \in DOMAIN parser.model.procs[proc].local_items
               /\ parser.model.items[item].parent_table = None
               /\ DOMAIN parser.model.tables[table].entries = {}
        /\ (TableThenProcItem /\ Len(parser.lines) = 5
               /\ LineOf(parser.lines[5]).completes /\ StatementOn(5).branch = "END") =>
               /\ parser.model.procs[proc].line_end = 4
               /\ ~parser.in_proc_body
               /\ parser.current_proc = None

(***************************************************************************)
(* C28: a text that begins with a PROC header and a BEGIN.  As long as the *)
(* proc is the current proc and no other PROC statement was read, its      *)
(* body_start is the line of that BEGIN, whatever BEGIN lines follow.      *)
(***************************************************************************)
\* the text read begins with a PROC header and a BEGIN, and holds no other
\* line that begins with PROC
ProcThenBegin ==
    /\ Len(parser.lines) >= 2
    /\ \A k \in 1..2 : LineOf(parser.lines[k]).completes
    /\ StatementOn(1).branch = "PROC" /\ StatementOn(1).m.ok
    /\ StatementOn(2).branch = "BEGIN"
    /\ \A k \in 3..Len(parser.lines) :
           ~StartsWith(Upper(LineOf(parser.lines[k]).stripped), "PROC")

C28_BodyStartKept ==
    (ProcThenBegin /\ parser.current_proc = Some(StatementOn(1).m.name)) =>
        parser.model.procs[StatementOn(1).m.name].body_start = 1

(***************************************************************************)
(* C29: a line that is BEGIN or END once its comment is removed and it is  *)
(* trimmed, in any casing, and a line `END;`, is handled by the BEGIN or   *)
(* END handler when it is read, whatever the statement buffer holds.       *)
(***************************************************************************)
\* the step reads a line that is one of the words once stripped
ReadsMarker(words) ==
    /\ pc = "parsing"
    /\ Len(parser'.lines) = Len(parser.lines) + 1
    /\ Upper(LineOf(parser'.lines[Len(parser'.lines)]).stripped) \in words

C29_MarkersDispatched ==
    [][/\ ReadsMarker({"BEGIN"}) =>
              parser' = handle_begin(Entered(parser'.lines[Len(parser'.lines)]), LineNo)
       /\ ReadsMarker({"END", "END;"}) =>
              parser' = handle_end(Entered(parser'.lines[Len(parser'.lines)]), LineNo)]_vars

(***************************************************************************)
(* C30: in every state of parse, in_table_body implies that current_table  *)
(* is set and names a table of the model, and in_proc_body implies that    *)
(* current_proc is set and names a proc of the model.                      *)
(***************************************************************************)
C30_BodyHasContainer ==
    /\ parser.in_table_body =>
           /\ parser.current_table # None
           /\ parser.current_table[1] \in DOMAIN parser.model.tables
    /\ parser.in_proc_body =>
           /\ parser.current_proc # None
           /\ parser.current_proc[1] \in DOMAIN parser.model.procs

\* parse is still inside a proc body after an END that closed the table body
\* entered by the same BEGIN
C30_ProcBodyAfterTableEnd ==
    /\ pc = "parsing"
    /\ parser.in_proc_body
    /\ ~parser.in_table_body
    /\ parser.current_table = None
    /\ DOMAIN parser.model.tables # {}
    /\ blocks.closed # EmptyDict

(***************************************************************************)
(* C31: in every state of the server each URI with a model has a stored    *)
(* text, and a query on a URI that has no text, as after didClose and      *)
(* before the next didOpen or non-empty didChange, finds no model either   *)
(* and is answered with null or an empty result.                           *)
(***************************************************************************)
\* the result is what the handler of the method gives when it finds no model
EmptyResult(method, result) ==
    CASE method = "completion" -> result = [isIncomplete |-> FALSE, items |-> <<>>]
      [] method = "hover" -> result = None
      [] method = "definition" -> result = None
      [] method = "references" -> result = <<>>
      [] method = "documentSymbol" -> result = {}

\* the reply answers a query on a URI the server holds no text for
QueriedWithoutText ==
    /\ reply # None
    /\ reply[1].method # "unknown"
    /\ reply[1].uri \notin DOMAIN documents

C31_ModelsHaveText ==
    /\ DOMAIN models \subseteq DOMAIN documents
    /\ QueriedWithoutText =>
           /\ reply[1].uri \notin DOMAIN models
           /\ EmptyResult(reply[1].method, reply[1].result)

\* a query on a URI without text was answered while the other URI has its
\* text and its model
C31_ClosedQueried ==
    /\ QueriedWithoutText
    /\ DOMAIN models # {}
    /\ DOMAIN models = DOMAIN documents

(***************************************************************************)
(* C32: a message with a method handle_request does not know is answered   *)
(* with an error response of code -32601 carrying the id of the message    *)
(* whenever the message carries an id, whatever the id, 0 included, and    *)
(* with no response when it carries none.                                  *)
(***************************************************************************)
\* handle_request has handled a message with an unknown method
UnknownHandled == reply # None /\ reply[1].method = "unknown"

C32_UnknownMethodAnswered ==
    UnknownHandled =>
        IF reply[1].id = None
        THEN reply[1].response = None
        ELSE reply[1].response = Some([id |-> reply[1].id[1], code |-> -32601])

(***************************************************************************)
(* C33: every location a references request returns spans a whole          *)
(* identifier of its line, the apostrophe being an identifier character,   *)
(* and that identifier is the requested name up to case: the name standing *)
(* inside a longer identifier joined by apostrophes, as LAT in NEW'LAT, is *)
(* not returned.                                                           *)
(***************************************************************************)
\* no identifier character stands right before or right after the location
WholeIdentifier(line, location) ==
    /\ \/ location.character_start = 0
       \/ ~IsIdentChar(Ch(line, location.character_start))
    /\ \/ location.character_end >= Len(line)
       \/ ~IsIdentChar(Ch(line, location.character_end + 1))

\* the characters of the line the location spans
Spanned(line, location) ==
    SubSeq(line, location.character_start + 1, location.character_end)

C33_WholeIdentifiers ==
    (Replied("references") /\ reply[1].result # <<>>) =>
        /\ OnLine
        /\ ReplyWord # None
        /\ \A n \in 1..Len(reply[1].result) :
               LET location == reply[1].result[n]
                   line == ReplyLines[location.line + 1]
               IN  /\ Upper(Spanned(line, location)) = ReplyWord[1]
                   /\ WholeIdentifier(line, location)

====
